---- MODULE Spec2Model ----
(***************************************************************************)
(* Model of the cpp-cache library core: Cache<K,V> (include/cache/Cache.hpp)*)
(* together with the LRU and LFU eviction policies, the NoExpiration,      *)
(* GlobalTTL and PerKeyTTL expiration policies, and the concurrency        *)
(* wrappers ThreadSafeCache and ShardedCache (include/cache/concurrency),  *)
(* and the asynchronous listener ThreadPerListenerComposite with its       *)
(* ThreadSafeQueue.                                                        *)
(*                                                                         *)
(* Conventions                                                             *)
(*  - std::optional<T> is a set: {} is nullopt, {x} holds x.               *)
(*  - std::unordered_map is a function whose DOMAIN is the set of keys     *)
(*    present; iteration order of an unordered_map is a nondeterministic   *)
(*    permutation of its keys.                                             *)
(*  - std::list<K> is a sequence, front() = s[1], back() = s[Len(s)].      *)
(*    keyToIterator_ is the set of keys that own an iterator; the iterator *)
(*    of a key always designates the front-most node holding that key      *)
(*    (push_front and splice-to-front are the only ways a node is placed). *)
(*  - Clock::now() is the variable now, advanced by Tick.                  *)
(*  - std::shared_mutex is a record: writer is the thread owning it        *)
(*    exclusively (0: none), readers the threads sharing it; a thread that *)
(*    cannot lock is blocked (its step is not enabled).                    *)
(*  - A std::thread is a program counter; join() is a step that is enabled *)
(*    once the joined thread has reached the end of its function.          *)
(*  - A section under a std::mutex that calls nothing blocking is one step.*)
(*  - A listener handle is a number; the callbacks of the handle           *)
(*    ThrowingListener throw, those of every other handle return.          *)
(***************************************************************************)
EXTENDS Integers, Sequences, FiniteSets, TLC

\* ------------------------------------------------------------------ bounds
NumKeys == 3
NumValues == 2
MaxCapacity == 2
MaxTime == 2
MaxTtl == 1
MaxFreq == 2
NumListeners == 1
MaxListeners == 1
MaxDefaultTtl == 2
NumThreads == 2
ShardCount == 2
MaxTotalCapacity == 3
MaxEntries == 2
MaxRegistered == 2
MaxPolicyFreq == 3
MaxEvents == 2
NumCallers == 2

Keys == 1..NumKeys
Values == 1..NumValues
Listeners == 1..NumListeners
\* Durations handed to put / policies: non-positive ones included.
Durations == (-1)..MaxTtl
PositiveDurations == 1..MaxTtl
Threads == 1..NumThreads
\* the threads that call addListener, removeListener and stop of a composite
Callers == 1..NumCallers
\* a listener handle whose callbacks throw
ThrowingListener == 0
AnyListeners == {ThrowingListener} \cup Listeners

VARIABLES
    capacity_,          \* Cache::capacity_
    data_,              \* Cache::data_            key -> value
    evictionPolicy_,    \* Cache::evictionPolicy_  (LRUPolicy or LFUPolicy object)
    expirationPolicy_,  \* Cache::expirationPolicy_
    listeners_,         \* Cache::listeners_       vector of registered listener handles
    now,                \* Clock::now()
    events,             \* callbacks delivered to every registered listener by the last operation
    lastOp,             \* the last operation: name, key argument, returned value, keys it dropped
    lastPut,            \* history: key -> value of its latest put, dropped on remove/evict/clear/expiry removal
    lastUse,            \* history: key -> rank of its latest insert, update or successful get (0: none)
    useCount,           \* history: key -> 1 at insert, +1 per update or successful get (kept for LFU; 0: none)
    mutex_,             \* ThreadSafeCache::mutex_ (its inner_ cache is the Cache of the variables above)
    threads,            \* thread -> the ThreadSafeCache call it is in and how far it has got
    totalCapacity_,     \* ShardedCache::totalCapacity_ (0: no ShardedCache was constructed)
    shards_,            \* ShardedCache::shards_: shard index -> the Cache object of the shard
    shardMutex,         \* ShardedCache::shards_[i].mutex
    skipped,            \* the registered listeners the last callback of the last operation did not reach
    entries_,           \* ThreadPerListenerComposite::entries_ (the entries are numbered as they are made)
    listenerEntry,      \* entry -> ListenerEntry: listener, queue, running, the queue's shutdown_, its thread
    callers,            \* caller -> the removeListener / stop call it is in and the entries it has yet to stop
    passedTo,           \* history: the n-th event passed to the composite -> the entries registered then
    delivered           \* history: entry -> the events its listener's callbacks were called with, in order

\* the state of the wrappers, left alone by every operation of the core
compositeVars == <<entries_, listenerEntry, callers, passedTo, delivered>>

wrapperVars ==
    <<mutex_, threads, totalCapacity_, shards_, shardMutex, skipped, entries_, listenerEntry,
      callers, passedTo, delivered>>

vars == <<capacity_, data_, evictionPolicy_, expirationPolicy_, listeners_, now,
          events, lastOp, lastPut, lastUse, useCount, mutex_, threads, totalCapacity_, shards_,
          shardMutex, skipped, entries_, listenerEntry, callers, passedTo, delivered>>

\* ------------------------------------------------------------- containers
EmptyMap == [x \in {} |-> 0]

MapErase(m, k) == [x \in (DOMAIN m) \ {k} |-> m[x]]

MapSet(m, k, v) == [x \in (DOMAIN m) \cup {k} |-> IF x = k THEN v ELSE m[x]]

Back(s) == s[Len(s)]

PushFront(s, k) == <<k>> \o s

\* index of the front-most node holding k, 0 when there is none
FirstIndex(s, k) ==
    IF \E i \in 1..Len(s) : s[i] = k
    THEN CHOOSE i \in 1..Len(s) : s[i] = k /\ \A j \in 1..(i - 1) : s[j] # k
    ELSE 0

\* std::list::erase(iterator of k)
EraseNode(s, k) ==
    LET i == FirstIndex(s, k)
    IN  IF i = 0 THEN s
        ELSE [j \in 1..(Len(s) - 1) |-> IF j < i THEN s[j] ELSE s[j + 1]]

\* every iteration order an unordered container over S can produce
Orders(S) ==
    {s \in [1..Cardinality(S) -> S] : \A i, j \in 1..Cardinality(S) : s[i] = s[j] => i = j}

SetMin(S) == CHOOSE x \in S : \A y \in S : x <= y

\* ------------------------------------------------------------- LRUPolicy
\* A policy object: kind selects the class, the other fields are its members
\* (members of the class not in use stay empty).
NewLRUPolicy ==
    [kind |-> "LRU", order_ |-> <<>>, keyToIterator_ |-> {},
     frequencyMap_ |-> EmptyMap, frequencyLists_ |-> EmptyMap, minFrequency_ |-> 0]

\* variant: an access leaves the recency order alone (the order becomes FIFO)
LRU_onAccess_noSplice(p, key) == p

LRU_onAccess(p, key) ==
    IF key \in p.keyToIterator_
    THEN [p EXCEPT !.order_ = PushFront(EraseNode(@, key), key)]
    ELSE p

LRU_onInsert(p, key) ==
    [p EXCEPT !.order_ = PushFront(@, key), !.keyToIterator_ = @ \cup {key}]

LRU_onRemove(p, key) ==
    IF key \in p.keyToIterator_
    THEN [p EXCEPT !.order_ = EraseNode(@, key), !.keyToIterator_ = @ \ {key}]
    ELSE p

LRU_empty(p) == p.order_ = <<>>

\* variant: the most recently used key is returned
LRU_selectVictim_front(p) == Head(p.order_)

\* precondition: ~LRU_empty(p) (the empty case throws std::logic_error)
LRU_selectVictim(p) == Back(p.order_)

LRU_clear(p) == [p EXCEPT !.order_ = <<>>, !.keyToIterator_ = {}]

\* ------------------------------------------------------------- LFUPolicy
NewLFUPolicy ==
    [kind |-> "LFU", order_ |-> <<>>, keyToIterator_ |-> {},
     frequencyMap_ |-> EmptyMap, frequencyLists_ |-> EmptyMap, minFrequency_ |-> 0]

addToFrequencyList(p, key, frequency) ==
    [p EXCEPT
        !.frequencyLists_ =
            IF frequency \in DOMAIN @
            THEN [@ EXCEPT ![frequency] = PushFront(@, key)]
            ELSE MapSet(@, frequency, <<key>>),
        !.keyToIterator_ = @ \cup {key}]

\* variant: a list that has become empty stays in the map
removeFromFrequencyList_keepsEmpty(p, key, frequency) ==
    IF key \notin p.keyToIterator_ THEN p
    ELSE IF frequency \notin DOMAIN p.frequencyLists_ THEN p
    ELSE [p EXCEPT !.keyToIterator_ = @ \ {key},
                   !.frequencyLists_[frequency] = EraseNode(@, key)]

removeFromFrequencyList(p, key, frequency) ==
    IF key \notin p.keyToIterator_ THEN p
    ELSE IF frequency \notin DOMAIN p.frequencyLists_ THEN p
    ELSE LET erased == EraseNode(p.frequencyLists_[frequency], key)
         IN  [p EXCEPT
                !.keyToIterator_ = @ \ {key},
                !.frequencyLists_ =
                    IF erased = <<>>
                    THEN MapErase(@, frequency)
                    ELSE [@ EXCEPT ![frequency] = erased]]

LFU_onAccess(p, key) ==
    IF key \notin DOMAIN p.frequencyMap_ THEN p
    ELSE LET oldFreq == p.frequencyMap_[key]
             newFreq == oldFreq + 1
             p1 == removeFromFrequencyList(p, key, oldFreq)
             p2 == IF oldFreq \notin DOMAIN p1.frequencyLists_ /\ p1.minFrequency_ = oldFreq
                   THEN [p1 EXCEPT !.minFrequency_ = newFreq]
                   ELSE p1
             p3 == [p2 EXCEPT !.frequencyMap_[key] = newFreq]
         IN  addToFrequencyList(p3, key, newFreq)

\* variant: an insert leaves the tracked minimum frequency as it is
LFU_onInsert_keepsMin(p, key) ==
    LET p1 == [p EXCEPT !.frequencyMap_ = MapSet(@, key, 1)]
    IN  addToFrequencyList(p1, key, 1)

LFU_onInsert(p, key) ==
    LET p1 == [p EXCEPT !.frequencyMap_ = MapSet(@, key, 1)]
        p2 == addToFrequencyList(p1, key, 1)
    IN  [p2 EXCEPT !.minFrequency_ = 1]

LFU_onRemove(p, key) ==
    IF key \notin DOMAIN p.frequencyMap_ THEN p
    ELSE LET freq == p.frequencyMap_[key]
             p1 == removeFromFrequencyList(p, key, freq)
         IN  [p1 EXCEPT !.frequencyMap_ = MapErase(@, key)]

LFU_empty(p) == DOMAIN p.frequencyMap_ = {}

\* precondition: frequencyLists_ is not empty
ensureValidMinFrequency(p) ==
    IF p.minFrequency_ \in DOMAIN p.frequencyLists_
       /\ p.frequencyLists_[p.minFrequency_] # <<>>
    THEN p
    ELSE [p EXCEPT !.minFrequency_ = SetMin(DOMAIN p.frequencyLists_)]

\* variant: the victim is taken from the front (most recent) of the list
LFU_selectVictim_front(p) ==
    LET p1 == ensureValidMinFrequency(p)
    IN  [victim |-> Head(p1.frequencyLists_[p1.minFrequency_]), policy |-> p1]

\* precondition: ~LFU_empty(p); selectVictim may repair minFrequency_, so
\* the call yields the returned key and the policy after the call
LFU_selectVictim(p) ==
    LET p1 == ensureValidMinFrequency(p)
    IN  [victim |-> Back(p1.frequencyLists_[p1.minFrequency_]), policy |-> p1]

LFU_clear(p) ==
    [p EXCEPT !.frequencyMap_ = EmptyMap, !.frequencyLists_ = EmptyMap,
              !.keyToIterator_ = {}, !.minFrequency_ = 0]

\* ------------------------------------------- IEvictionPolicy (virtual calls)
Ev_onAccess(p, key) == IF p.kind = "LRU" THEN LRU_onAccess(p, key) ELSE LFU_onAccess(p, key)

Ev_onInsert(p, key) == IF p.kind = "LRU" THEN LRU_onInsert(p, key) ELSE LFU_onInsert(p, key)

Ev_onRemove(p, key) == IF p.kind = "LRU" THEN LRU_onRemove(p, key) ELSE LFU_onRemove(p, key)

Ev_empty(p) == IF p.kind = "LRU" THEN LRU_empty(p) ELSE LFU_empty(p)

\* variant: the policy forgets the key it returns
Ev_selectVictim_removes(p) ==
    IF p.kind = "LRU"
    THEN [victim |-> LRU_selectVictim(p), policy |-> LRU_onRemove(p, LRU_selectVictim(p))]
    ELSE LET sv == LFU_selectVictim(p)
         IN  [victim |-> sv.victim, policy |-> LFU_onRemove(sv.policy, sv.victim)]

Ev_selectVictim(p) ==
    IF p.kind = "LRU"
    THEN [victim |-> LRU_selectVictim(p), policy |-> p]
    ELSE LFU_selectVictim(p)

Ev_clear(p) == IF p.kind = "LRU" THEN LRU_clear(p) ELSE LFU_clear(p)

\* ------------------------------------------------------ expiration policies
\* A policy object: kind selects the class; globalTtl_ is GlobalTTL's member,
\* defaultTtl_ (an optional) is PerKeyTTL's, expirationTimes_ is the
\* key -> deadline map of both. NoExpiration has no state.
NewNoExpiration ==
    [kind |-> "NoExpiration", globalTtl_ |-> 0, defaultTtl_ |-> {}, expirationTimes_ |-> EmptyMap]

\* the constructor throws std::invalid_argument unless ttl > 0
NewGlobalTTL(ttl) ==
    [kind |-> "GlobalTTL", globalTtl_ |-> ttl, defaultTtl_ |-> {}, expirationTimes_ |-> EmptyMap]

NewPerKeyTTL(defaultTtl) ==
    [kind |-> "PerKeyTTL", globalTtl_ |-> 0, defaultTtl_ |-> defaultTtl, expirationTimes_ |-> EmptyMap]

\* variant: an entry counts as expired from its deadline on
TTL_isExpired_atDeadline(e, key, clock) ==
    IF key \notin DOMAIN e.expirationTimes_ THEN FALSE
    ELSE clock >= e.expirationTimes_[key]

\* GlobalTTL::isExpired and PerKeyTTL::isExpired are the same code
TTL_isExpired(e, key, clock) ==
    IF key \notin DOMAIN e.expirationTimes_ THEN FALSE
    ELSE clock > e.expirationTimes_[key]

GlobalTTL_onInsert(e, key, customTtl, clock) ==
    [e EXCEPT !.expirationTimes_ = MapSet(@, key, clock + e.globalTtl_)]

\* variant: without a ttl an earlier record of the key is left in place
PerKeyTTL_onInsert_keepsRecord(e, key, customTtl, clock) ==
    LET ttl == IF customTtl # {} THEN customTtl ELSE e.defaultTtl_
    IN  IF ttl = {} THEN e
        ELSE LET d == CHOOSE x \in ttl : TRUE
             IN  IF d <= 0 THEN e
                 ELSE [e EXCEPT !.expirationTimes_ = MapSet(@, key, clock + d)]

\* variant: a custom ttl that is not positive gives way to the default
PerKeyTTL_onInsert_defaultForInvalid(e, key, customTtl, clock) ==
    LET ttl == IF customTtl # {} /\ (\A x \in customTtl : x > 0) THEN customTtl
               ELSE e.defaultTtl_
    IN  IF ttl = {} THEN [e EXCEPT !.expirationTimes_ = MapErase(@, key)]
        ELSE LET d == CHOOSE x \in ttl : TRUE
             IN  IF d <= 0 THEN e
                 ELSE [e EXCEPT !.expirationTimes_ = MapSet(@, key, clock + d)]

PerKeyTTL_onInsert(e, key, customTtl, clock) ==
    LET ttl == IF customTtl # {} THEN customTtl ELSE e.defaultTtl_
    IN  IF ttl = {} THEN [e EXCEPT !.expirationTimes_ = MapErase(@, key)]
        ELSE LET d == CHOOSE x \in ttl : TRUE
             IN  IF d <= 0 THEN e
                 ELSE [e EXCEPT !.expirationTimes_ = MapSet(@, key, clock + d)]

\* variant: the deadline of a removed key is left in the map
TTL_onRemove_keepsDeadline(e, key) == e

TTL_onRemove(e, key) == [e EXCEPT !.expirationTimes_ = MapErase(@, key)]

TTL_clear(e) == [e EXCEPT !.expirationTimes_ = EmptyMap]

\* the keys of the returned vector; its order is the map's iteration order
TTL_collectExpired(e, clock) ==
    {key \in DOMAIN e.expirationTimes_ : clock > e.expirationTimes_[key]}

TTL_timeToLive(e, key, clock) ==
    IF key \notin DOMAIN e.expirationTimes_ THEN {}
    ELSE IF clock > e.expirationTimes_[key] THEN {0}
    ELSE {e.expirationTimes_[key] - clock}

\* --------------------------------------- IExpirationPolicy (virtual calls)
Exp_isExpired(e, key, clock) ==
    IF e.kind = "NoExpiration" THEN FALSE ELSE TTL_isExpired(e, key, clock)

Exp_onInsert(e, key, customTtl, clock) ==
    IF e.kind = "NoExpiration" THEN e
    ELSE IF e.kind = "GlobalTTL" THEN GlobalTTL_onInsert(e, key, customTtl, clock)
    ELSE PerKeyTTL_onInsert(e, key, customTtl, clock)

\* onAccess is an empty body in all three classes
Exp_onAccess(e, key) == e

Exp_onRemove(e, key) == IF e.kind = "NoExpiration" THEN e ELSE TTL_onRemove(e, key)

Exp_clear(e) == IF e.kind = "NoExpiration" THEN e ELSE TTL_clear(e)

Exp_collectExpired(e, clock) ==
    IF e.kind = "NoExpiration" THEN {} ELSE TTL_collectExpired(e, clock)

Exp_timeToLive(e, key, clock) ==
    IF e.kind = "NoExpiration" THEN {} ELSE TTL_timeToLive(e, key, clock)

\* -------------------------------------------------------------------- Cache
\* The cache object as the handlers see it. events collects the listener
\* callbacks made during the running operation; threw is set when the
\* operation is left by an exception, and skipped then holds the registered
\* listeners that the callback during which it was thrown did not reach.
Self ==
    [capacity_ |-> capacity_, data_ |-> data_, evictionPolicy_ |-> evictionPolicy_,
     expirationPolicy_ |-> expirationPolicy_, listeners_ |-> listeners_,
     events |-> <<>>, threw |-> FALSE, skipped |-> <<>>]

\* the position in the vector of the first listener whose callbacks throw,
\* 0 when there is none
FirstThrowing(listeners) ==
    IF \E n \in 1..Len(listeners) : listeners[n] = ThrowingListener
    THEN SetMin({n \in 1..Len(listeners) : listeners[n] = ThrowingListener})
    ELSE 0

\* variant: what a callback throws is caught inside the loop
Deliver_contained(c, event) ==
    IF c.listeners_ = <<>> THEN c ELSE [c EXCEPT !.events = Append(@, event)]

\* for (auto& listener : listeners_) listener->onX(...): every registered
\* handle gets the same callback, nothing happens when the vector is empty.
\* The loop has no try: what a callback throws leaves the loop and the
\* operation, and the listeners after the throwing one are not called.
Deliver(c, event) ==
    IF c.listeners_ = <<>> THEN c
    ELSE LET n == FirstThrowing(c.listeners_)
         IN  IF n = 0 THEN [c EXCEPT !.events = Append(@, event)]
             ELSE [c EXCEPT !.events = Append(@, event), !.threw = TRUE,
                            !.skipped = SubSeq(c.listeners_, n + 1, Len(c.listeners_))]

notifyHit(c, key) == Deliver(c, <<"Hit", key>>)

notifyMiss(c, key) == Deliver(c, <<"Miss", key>>)

notifyInsert(c, key, value) == Deliver(c, <<"Insert", key, value>>)

notifyUpdate(c, key, oldValue, newValue) == Deliver(c, <<"Update", key, oldValue, newValue>>)

notifyEvict(c, key, value) == Deliver(c, <<"Evict", key, value>>)

notifyRemove(c, key) == Deliver(c, <<"Remove", key>>)

notifyClear(c, count) == Deliver(c, <<"Clear", count>>)

\* the body is "(void)key;": ICacheListener has no expiry callback
notifyExpire(c, key) == c

\* variant: the eviction policy is not told of the removal
removeInternal_keepsRecord(c, key) ==
    [c EXCEPT !.data_ = MapErase(@, key),
              !.expirationPolicy_ = Exp_onRemove(@, key)]

removeInternal(c, key) ==
    [c EXCEPT !.data_ = MapErase(@, key),
              !.evictionPolicy_ = Ev_onRemove(@, key),
              !.expirationPolicy_ = Exp_onRemove(@, key)]

\* variant: the victim's metadata is dropped but its entry stays in data_
evict_keepsEntry(c) ==
    IF Ev_empty(c.evictionPolicy_) THEN [c EXCEPT !.threw = TRUE]
    ELSE LET sv == Ev_selectVictim(c.evictionPolicy_)
             victim == sv.victim
             c1 == [c EXCEPT !.evictionPolicy_ = Ev_onRemove(sv.policy, victim),
                             !.expirationPolicy_ = Exp_onRemove(@, victim)]
         IN  IF victim \in DOMAIN c1.data_
             THEN notifyEvict(c1, victim, c1.data_[victim])
             ELSE c1

evict(c) ==
    IF Ev_empty(c.evictionPolicy_) THEN [c EXCEPT !.threw = TRUE]
    ELSE LET sv == Ev_selectVictim(c.evictionPolicy_)
             victim == sv.victim
             c1 == [c EXCEPT !.evictionPolicy_ = sv.policy]
         IN  IF victim \in DOMAIN c1.data_
             THEN notifyEvict(removeInternal(c1, victim), victim, c1.data_[victim])
             ELSE c1

\* A null std::unique_ptr to a policy (no object behind it).
NullEvictionPolicy == [NewLRUPolicy EXCEPT !.kind = "null"]

NullExpirationPolicy == [NewNoExpiration EXCEPT !.kind = "null"]

\* variant: the capacity is not checked
Cache_new_anyCapacity(capacity, evictionPolicy, expirationPolicy) ==
    LET c == [capacity_ |-> capacity, data_ |-> EmptyMap,
              evictionPolicy_ |-> IF evictionPolicy = {} THEN NullEvictionPolicy
                                  ELSE CHOOSE p \in evictionPolicy : TRUE,
              expirationPolicy_ |-> IF expirationPolicy = {} THEN NullExpirationPolicy
                                    ELSE CHOOSE e \in expirationPolicy : TRUE,
              listeners_ |-> <<>>, events |-> <<>>, threw |-> FALSE, skipped |-> <<>>]
    IN  IF evictionPolicy = {} THEN [c EXCEPT !.threw = TRUE]
        ELSE IF expirationPolicy = {} THEN [c EXCEPT !.expirationPolicy_ = NewNoExpiration]
        ELSE c

\* Cache(capacity, evictionPolicy, expirationPolicy); the policies are
\* optionals ({} is nullptr). threw: the constructor was left by
\* std::invalid_argument and no object exists; the members then hold what
\* the initialiser list moved into them.
Cache_new(capacity, evictionPolicy, expirationPolicy) ==
    LET c == [capacity_ |-> capacity, data_ |-> EmptyMap,
              evictionPolicy_ |-> IF evictionPolicy = {} THEN NullEvictionPolicy
                                  ELSE CHOOSE p \in evictionPolicy : TRUE,
              expirationPolicy_ |-> IF expirationPolicy = {} THEN NullExpirationPolicy
                                    ELSE CHOOSE e \in expirationPolicy : TRUE,
              listeners_ |-> <<>>, events |-> <<>>, threw |-> FALSE, skipped |-> <<>>]
    IN  IF capacity = 0 THEN [c EXCEPT !.threw = TRUE]
        ELSE IF evictionPolicy = {} THEN [c EXCEPT !.threw = TRUE]
        ELSE IF expirationPolicy = {} THEN [c EXCEPT !.expirationPolicy_ = NewNoExpiration]
        ELSE c

\* variant: get does not ask the expiration policy
Cache_get_noExpiryCheck(c, key, clock) ==
    IF key \notin DOMAIN c.data_
    THEN [cache |-> notifyMiss(c, key), ret |-> {}]
    ELSE LET c1 == [c EXCEPT !.evictionPolicy_ = Ev_onAccess(@, key),
                             !.expirationPolicy_ = Exp_onAccess(@, key)]
         IN  [cache |-> notifyHit(c1, key), ret |-> {c.data_[key]}]

\* each operation yields the cache after the call and the returned value
Cache_get(c, key, clock) ==
    IF key \notin DOMAIN c.data_
    THEN [cache |-> notifyMiss(c, key), ret |-> {}]
    ELSE IF Exp_isExpired(c.expirationPolicy_, key, clock)
    THEN [cache |-> notifyMiss(notifyExpire(removeInternal(c, key), key), key), ret |-> {}]
    ELSE LET c1 == [c EXCEPT !.evictionPolicy_ = Ev_onAccess(@, key),
                             !.expirationPolicy_ = Exp_onAccess(@, key)]
         IN  [cache |-> notifyHit(c1, key), ret |-> {c.data_[key]}]

\* variant: the new entry is stored first and the cache trimmed afterwards
Cache_put_insertFirst(c, key, value, ttl, clock) ==
    IF key \in DOMAIN c.data_
    THEN LET oldValue == c.data_[key]
             c1 == [c EXCEPT !.data_[key] = value,
                             !.evictionPolicy_ = Ev_onAccess(@, key),
                             !.expirationPolicy_ =
                                 Exp_onInsert(Exp_onRemove(@, key), key, ttl, clock)]
         IN  notifyUpdate(c1, key, oldValue, value)
    ELSE LET c1 == [c EXCEPT !.data_ = MapSet(@, key, value),
                             !.evictionPolicy_ = Ev_onInsert(@, key),
                             !.expirationPolicy_ = Exp_onInsert(@, key, ttl, clock)]
             c2 == notifyInsert(c1, key, value)
         IN  IF Cardinality(DOMAIN c2.data_) > c2.capacity_ THEN evict(c2) ELSE c2

\* variant: the capacity check is made before the lookup of the key
Cache_put_checkFirst(c, key, value, ttl, clock) ==
    LET c0 == IF Cardinality(DOMAIN c.data_) >= c.capacity_ THEN evict(c) ELSE c
    IN  IF c0.threw THEN c0
        ELSE IF key \in DOMAIN c0.data_
        THEN LET oldValue == c0.data_[key]
                 c1 == [c0 EXCEPT !.data_[key] = value,
                                  !.evictionPolicy_ = Ev_onAccess(@, key),
                                  !.expirationPolicy_ =
                                      Exp_onInsert(Exp_onRemove(@, key), key, ttl, clock)]
             IN  notifyUpdate(c1, key, oldValue, value)
        ELSE LET c2 == [c0 EXCEPT !.data_ = MapSet(@, key, value),
                                  !.evictionPolicy_ = Ev_onInsert(@, key),
                                  !.expirationPolicy_ = Exp_onInsert(@, key, ttl, clock)]
             IN  notifyInsert(c2, key, value)

\* variant: a stored entry whose deadline has passed is dropped first, so that
\* the put takes the insert branch
Cache_put_expiredIsFresh(c, key, value, ttl, clock) ==
    LET c0 == IF key \in DOMAIN c.data_ /\ Exp_isExpired(c.expirationPolicy_, key, clock)
              THEN removeInternal(c, key) ELSE c
    IN  IF key \in DOMAIN c0.data_
        THEN LET oldValue == c0.data_[key]
                 c1 == [c0 EXCEPT !.data_[key] = value,
                                  !.evictionPolicy_ = Ev_onAccess(@, key),
                                  !.expirationPolicy_ =
                                      Exp_onInsert(Exp_onRemove(@, key), key, ttl, clock)]
             IN  notifyUpdate(c1, key, oldValue, value)
        ELSE LET c1 == IF Cardinality(DOMAIN c0.data_) >= c0.capacity_ THEN evict(c0) ELSE c0
             IN  IF c1.threw THEN c1
                 ELSE LET c2 == [c1 EXCEPT !.data_ = MapSet(@, key, value),
                                           !.evictionPolicy_ = Ev_onInsert(@, key),
                                           !.expirationPolicy_ = Exp_onInsert(@, key, ttl, clock)]
                      IN  notifyInsert(c2, key, value)

Cache_put(c, key, value, ttl, clock) ==
    IF key \in DOMAIN c.data_
    THEN LET oldValue == c.data_[key]
             c1 == [c EXCEPT !.data_[key] = value,
                             !.evictionPolicy_ = Ev_onAccess(@, key),
                             !.expirationPolicy_ =
                                 Exp_onInsert(Exp_onRemove(@, key), key, ttl, clock)]
         IN  notifyUpdate(c1, key, oldValue, value)
    ELSE LET c1 == IF Cardinality(DOMAIN c.data_) >= c.capacity_ THEN evict(c) ELSE c
         IN  IF c1.threw THEN c1
             ELSE LET c2 == [c1 EXCEPT !.data_ = MapSet(@, key, value),
                                       !.evictionPolicy_ = Ev_onInsert(@, key),
                                       !.expirationPolicy_ = Exp_onInsert(@, key, ttl, clock)]
                  IN  notifyInsert(c2, key, value)

\* variant: the listeners are told of the removal whether or not the key was stored
Cache_remove_alwaysNotifies(c, key) ==
    IF key \notin DOMAIN c.data_
    THEN [cache |-> notifyRemove(c, key), ret |-> FALSE]
    ELSE [cache |-> notifyRemove(removeInternal(c, key), key), ret |-> TRUE]

Cache_remove(c, key) ==
    IF key \notin DOMAIN c.data_
    THEN [cache |-> c, ret |-> FALSE]
    ELSE [cache |-> notifyRemove(removeInternal(c, key), key), ret |-> TRUE]

\* variant: the entries are counted after storage has been emptied
Cache_clear_countsAfter(c) ==
    LET c1 == [c EXCEPT !.data_ = EmptyMap,
                        !.evictionPolicy_ = Ev_clear(@),
                        !.expirationPolicy_ = Exp_clear(@)]
    IN  notifyClear(c1, Cardinality(DOMAIN c1.data_))

Cache_clear(c) ==
    LET count == Cardinality(DOMAIN c.data_)
        c1 == [c EXCEPT !.data_ = EmptyMap,
                        !.evictionPolicy_ = Ev_clear(@),
                        !.expirationPolicy_ = Exp_clear(@)]
    IN  notifyClear(c1, count)

Cache_size(c) == Cardinality(DOMAIN c.data_)

\* variant: contains takes an entry for expired from its deadline on
Cache_contains_atDeadline(c, key, clock) ==
    IF key \notin DOMAIN c.data_ THEN FALSE
    ELSE ~(c.expirationPolicy_.kind # "NoExpiration"
           /\ key \in DOMAIN c.expirationPolicy_.expirationTimes_
           /\ clock >= c.expirationPolicy_.expirationTimes_[key])

\* variant: contains looks the key up and does not ask the expiration policy
Cache_contains_storedOnly(c, key, clock) == key \in DOMAIN c.data_

Cache_contains(c, key, clock) ==
    IF key \notin DOMAIN c.data_ THEN FALSE
    ELSE ~Exp_isExpired(c.expirationPolicy_, key, clock)

Cache_timeToLive(c, key, clock) ==
    IF ~Cache_contains(c, key, clock) THEN {}
    ELSE Exp_timeToLive(c.expirationPolicy_, key, clock)

\* the loop of removeExpired over the vector expired (a sequence of keys)
RECURSIVE removeExpiredLoop(_, _)
removeExpiredLoop(r, expired) ==
    IF expired = <<>> THEN r
    ELSE LET key == Head(expired)
         IN  IF key \in DOMAIN r.cache.data_
             THEN removeExpiredLoop(
                      [cache |-> notifyExpire(removeInternal(r.cache, key), key),
                       ret |-> r.ret + 1],
                      Tail(expired))
             ELSE removeExpiredLoop(r, Tail(expired))

\* expired: the vector collectExpired() returned
Cache_removeExpired(c, expired) == removeExpiredLoop([cache |-> c, ret |-> 0], expired)

\* the loops of setEvictionPolicy / setExpirationPolicy over data_, visited
\* in the order given by the sequence keys
RECURSIVE registerEviction(_, _)
registerEviction(p, keys) ==
    IF keys = <<>> THEN p ELSE registerEviction(Ev_onInsert(p, Head(keys)), Tail(keys))

RECURSIVE registerExpiration(_, _, _)
registerExpiration(e, keys, clock) ==
    IF keys = <<>> THEN e
    ELSE registerExpiration(Exp_onInsert(e, Head(keys), {}, clock), Tail(keys), clock)

\* variant: the new policy is installed as it is handed over
Cache_setEvictionPolicy_noRegister(c, policy, keys) ==
    IF policy = {} THEN [c EXCEPT !.threw = TRUE]
    ELSE [c EXCEPT !.evictionPolicy_ = CHOOSE p \in policy : TRUE]

\* policy: {} is a null pointer, {p} a policy object
Cache_setEvictionPolicy(c, policy, keys) ==
    IF policy = {} THEN [c EXCEPT !.threw = TRUE]
    ELSE [c EXCEPT !.evictionPolicy_ = registerEviction(CHOOSE p \in policy : TRUE, keys)]

Cache_setExpirationPolicy(c, policy, keys, clock) ==
    LET e == IF policy = {} THEN NewNoExpiration ELSE CHOOSE p \in policy : TRUE
    IN  [c EXCEPT !.expirationPolicy_ = registerExpiration(e, keys, clock)]

Cache_addListener(c, listener) ==
    IF listener # {}
    THEN [c EXCEPT !.listeners_ = Append(@, CHOOSE l \in listener : TRUE)]
    ELSE c

Cache_removeListener(c, listener) ==
    [c EXCEPT !.listeners_ = SelectSeq(@, LAMBDA l : {l} # listener)]

\* ---------------------------------------------------------- ThreadSafeCache
\* std::unique_lock / std::shared_lock on a std::shared_mutex m
CanLock(m, kind) ==
    IF kind = "unique" THEN m.writer = 0 /\ m.readers = {} ELSE m.writer = 0

Lock(m, kind, t) ==
    IF kind = "unique" THEN [m EXCEPT !.writer = t] ELSE [m EXCEPT !.readers = @ \cup {t}]

\* the destructor of the lock object
Unlock(m, t) ==
    [writer |-> IF m.writer = t THEN 0 ELSE m.writer, readers |-> m.readers \ {t}]

ThreadSafeMethods ==
    {"get", "put", "remove", "clear", "size", "contains", "capacity", "withExclusiveLock"}

\* variant: get takes the shared lock, as the read-only methods do
LockOf_getShared(method) ==
    IF method \in {"put", "remove", "clear", "withExclusiveLock"} THEN "unique" ELSE "shared"

\* variant: the closure runs under the shared lock
LockOf_closureShared(method) ==
    IF method \in {"get", "put", "remove", "clear"} THEN "unique" ELSE "shared"

\* the lock each method of ThreadSafeCache takes on mutex_
LockOf(method) ==
    IF method \in {"get", "put", "remove", "clear", "withExclusiveLock"}
    THEN "unique" ELSE "shared"

\* inner_->method(key) through the ICache interface (put stores the value 1
\* without ttl); yields the inner cache after the call
ThreadSafe_inner(c, method, key, clock) ==
    IF method = "get" THEN Cache_get(c, key, clock).cache
    ELSE IF method = "put" THEN Cache_put(c, key, 1, {}, clock)
    ELSE IF method = "remove" THEN Cache_remove(c, key).cache
    ELSE IF method = "clear" THEN Cache_clear(c)
    ELSE c

\* ------------------------------------------------------------- ShardedCache
\* std::hash<K> of an integral key is the key itself
hasher(key) == key

\* variant: every key is routed to the first shard
getShardIndex_first(key) == 0

getShardIndex(key) == hasher(key) % ShardCount

ShardIndices == 0..(ShardCount - 1)

\* variant: the capacity of a shard is rounded down
shardCapacity_floor(totalCapacity) ==
    LET shardCapacity == totalCapacity \div ShardCount
    IN  IF shardCapacity < 1 THEN 1 ELSE shardCapacity

\* the capacity the constructor hands to the factory
shardCapacity(totalCapacity) ==
    LET c == (totalCapacity + ShardCount - 1) \div ShardCount
    IN  IF c < 1 THEN 1 ELSE c

\* the factory of the class comment, a Cache with an LRU policy; a listener
\* is registered with each cache it makes
CacheFactory(capacity) == Cache_addListener(Cache_new(capacity, {NewLRUPolicy}, {}), {1})

\* ShardedCache(totalCapacity, factory), totalCapacity >= 1 (0 throws)
ShardedCache_new(totalCapacity) ==
    [totalCapacity_ |-> totalCapacity,
     shards_ |-> [i \in ShardIndices |-> CacheFactory(shardCapacity(totalCapacity))]]

\* the cache object of a shard at the start of a call on it
ShardSelf(s, i) == [s[i] EXCEPT !.events = <<>>, !.threw = FALSE]

\* each method yields the shards after the call, the returned value and the
\* callbacks made to the listeners
Sharded_get(s, key, clock) ==
    LET i == getShardIndex(key)
        r == Cache_get(ShardSelf(s, i), key, clock)
    IN  [shards |-> [s EXCEPT ![i] = r.cache], ret |-> r.ret, events |-> r.cache.events]

Sharded_put(s, key, value, clock) ==
    LET i == getShardIndex(key)
        c == Cache_put(ShardSelf(s, i), key, value, {}, clock)
    IN  [shards |-> [s EXCEPT ![i] = c], ret |-> {}, events |-> c.events]

Sharded_remove(s, key) ==
    LET i == getShardIndex(key)
        r == Cache_remove(ShardSelf(s, i), key)
    IN  [shards |-> [s EXCEPT ![i] = r.cache], ret |-> r.ret, events |-> r.cache.events]

\* the shards are cleared one after the other, in index order
Sharded_clear(s) ==
    [shards |-> [i \in ShardIndices |-> Cache_clear(ShardSelf(s, i))],
     ret |-> {},
     events |-> [n \in 1..ShardCount |-> <<"Clear", Cache_size(s[n - 1])>>]]

RECURSIVE sizeUpTo(_, _)
sizeUpTo(s, n) == IF n = 0 THEN 0 ELSE sizeUpTo(s, n - 1) + Cache_size(s[n - 1])

\* total += shard.cache->size() over all shards
Sharded_size(s) == sizeUpTo(s, ShardCount)

Sharded_contains(s, key, clock) == Cache_contains(s[getShardIndex(key)], key, clock)

\* variant: put takes the shared lock of its shard
ShardLockOf_putShared(method) ==
    IF method \in {"get", "remove", "clear"} THEN "unique" ELSE "shared"

\* the lock each method takes on shard.mutex: std::unique_lock or std::shared_lock
ShardLockOf(method) ==
    IF method \in {"get", "put", "remove", "clear"} THEN "unique" ELSE "shared"

\* the first shard a call visits: getShard(key), or shards_[0] for the loops
\* of clear and size
FirstShard(method, key) == IF method \in {"clear", "size"} THEN 0 ELSE getShardIndex(key)

\* for (auto& shard : shards_): whether the call has another shard to visit
\* after shard i
HasNextShard(method, i) == method \in {"clear", "size"} /\ i + 1 < ShardCount

\* shard.cache->method(...) on the cache c of one shard; yields that cache
\* after the call
Shard_inner(c, method, key, value, clock) ==
    IF method = "get" THEN Cache_get(c, key, clock).cache
    ELSE IF method = "put" THEN Cache_put(c, key, value, {}, clock)
    ELSE IF method = "remove" THEN Cache_remove(c, key).cache
    ELSE IF method = "clear" THEN Cache_clear(c)
    ELSE c

\* ------------------------------------------------------------ ThreadSafeQueue
\* queue_ and shutdown_; an item is a command, held as the number of the
\* event it delivers
NewQueue == [queue_ |-> <<>>, shutdown_ |-> FALSE]

\* variant: push waits while MaxEvents - 1 items are queued
Queue_canPush_bounded(q) == Len(q.queue_) < MaxEvents - 1

\* push takes the queue's mutex_ and waits for nothing else: the std::queue
\* has no bound
Queue_canPush(q) == TRUE

\* variant: the item is put at the front
Queue_push_front(q, item) == [q EXCEPT !.queue_ = <<item>> \o @]

Queue_push(q, item) == [q EXCEPT !.queue_ = Append(@, item)]

\* tryPop(item, timeout): with an item queued it is popped; with none the
\* wait ends by shutdown or by the timeout and the call returns false
Queue_tryPop(q) ==
    IF q.queue_ = <<>>
    THEN [popped |-> FALSE, item |-> 0, queue |-> q]
    ELSE [popped |-> TRUE, item |-> Head(q.queue_), queue |-> [q EXCEPT !.queue_ = Tail(@)]]

Queue_tryPopImmediate(q) ==
    IF q.queue_ = <<>>
    THEN [popped |-> FALSE, item |-> 0, queue |-> q]
    ELSE [popped |-> TRUE, item |-> Head(q.queue_), queue |-> [q EXCEPT !.queue_ = Tail(@)]]

Queue_shutdown(q) == [q EXCEPT !.shutdown_ = TRUE]

\* ------------------------------------------------ ThreadPerListenerComposite
\* the callbacks of this listener handle throw
Throws(listener) == listener = ThrowingListener

\* A ListenerEntry as addListener makes it. pc is where its thread is in
\* workerLoop: "loop" at the head of the while, "exec" in executeCommand
\* called from the loop, "drain" in tryPopImmediate of
\* drainQueue, "drainExec" in executeCommand called from drainQueue, "done"
\* when workerLoop has returned. command is the command being executed.
NewListenerEntry(listener) ==
    [listener |-> listener, queue |-> NewQueue, running |-> TRUE, pc |-> "loop", command |-> 0]

\* the entries of a vector of entries, as a set
EntrySet(entries) == {entries[n] : n \in 1..Len(entries)}

\* std::find_if over entries_: the position of the first entry of the
\* listener, 0 for entries_.end()
FindEntry(entries, all, listener) ==
    IF \E n \in 1..Len(entries) : all[entries[n]].listener = listener
    THEN SetMin({n \in 1..Len(entries) : all[entries[n]].listener = listener})
    ELSE 0

\* entries_.erase(it)
EraseAt(entries, n) == SubSeq(entries, 1, n - 1) \o SubSeq(entries, n + 1, Len(entries))

\* broadcast: the command of the event is pushed to the queue of every entry
\* of entries_
broadcast(entries, all, event) ==
    [e \in DOMAIN all |->
        IF e \in EntrySet(entries)
        THEN [all[e] EXCEPT !.queue = Queue_push(@, event)]
        ELSE all[e]]

\* variant: the loop returns without draining the queue
workerLoop_exit_noDrain(en) == [en EXCEPT !.pc = "done"]

\* the while of workerLoop is left: drainQueue(entry) is next
workerLoop_exit(en) == [en EXCEPT !.pc = "drain"]

\* variant: the exception of a callback is not caught and ends the thread
executeCommand_noCatch(en, resume) ==
    IF Throws(en.listener) THEN [en EXCEPT !.pc = "done", !.command = 0]
    ELSE [en EXCEPT !.pc = resume, !.command = 0]

\* executeCommand: the command calls the listener; what the callback throws
\* is caught and logged, and the caller (the loop or drainQueue) goes on
executeCommand(en, resume) == [en EXCEPT !.pc = resume, !.command = 0]

\* variant: running stays set
stopEntry_noSignal(en) == [en EXCEPT !.queue = Queue_shutdown(@)]

\* stopEntry up to the join: entry->running = false; entry->queue.shutdown()
stopEntry(en) == [en EXCEPT !.running = FALSE, !.queue = Queue_shutdown(@)]

\* variant: the thread is not waited for
ThreadEnded_noWait(en) == TRUE

\* entry->thread.join() returns once workerLoop has returned
ThreadEnded(en) == en.pc = "done"

\* ---------------------------------------------------------------- histories
\* lastUse ranks the stored keys by the time of their latest use (insert,
\* update, successful get; a policy swap registers every stored key anew, in
\* the order it visits them): 0 = none, a larger rank = a more recent use.
\* Ranks are kept dense (1..n) so that the history stays finite.
Dense(u) ==
    [k \in Keys |-> IF u[k] = 0 THEN 0
                    ELSE Cardinality({j \in Keys : u[j] > 0 /\ u[j] <= u[k]})]

Touch(u, key) == Dense([u EXCEPT ![key] = NumKeys + 1])

Forget(u, keys) == Dense([k \in Keys |-> IF k \in keys THEN 0 ELSE u[k]])

RECURSIVE TouchAll(_, _)
TouchAll(u, keys) ==
    IF keys = <<>> THEN u ELSE TouchAll(Touch(u, Head(keys)), Tail(keys))

NoUse == [k \in Keys |-> 0]

\* useCount is the frequency as LFU defines it; it is kept only while an
\* LFUPolicy is installed (an LRU cache has no bound on accesses).
Counting == evictionPolicy_.kind = "LFU"

CountInsert(n, gone, key) ==
    IF Counting THEN [k \in Keys |-> IF k = key THEN 1 ELSE IF k \in gone THEN 0 ELSE n[k]]
    ELSE n

CountAccess(n, key) == IF Counting THEN [n EXCEPT ![key] = @ + 1] ELSE n

CountDrop(n, gone) == [k \in Keys |-> IF k \in gone THEN 0 ELSE n[k]]

\* the deadline recorded for key has passed (read off the policy's map)
PastDeadline(key) ==
    /\ expirationPolicy_.kind # "NoExpiration"
    /\ key \in DOMAIN expirationPolicy_.expirationTimes_
    /\ now > expirationPolicy_.expirationTimes_[key]

Stored(key) == key \in DOMAIN data_

Restrict(m, keys) == [x \in (DOMAIN m) \cap keys |-> m[x]]

\* ------------------------------------------------------------------ inputs
EvictionPolicies == {NewLRUPolicy, NewLFUPolicy}

ExpirationPolicies ==
    {NewNoExpiration}
    \cup {NewGlobalTTL(d) : d \in PositiveDurations}
    \cup {NewPerKeyTTL({})}
    \cup {NewPerKeyTTL({d}) : d \in PositiveDurations}

\* an access must not take a frequency counter past the modelled range
CanAccess(key) ==
    (evictionPolicy_.kind = "LFU" /\ key \in DOMAIN evictionPolicy_.frequencyMap_)
        => evictionPolicy_.frequencyMap_[key] < MaxFreq

\* the members of the cache object after a call, and what its listeners saw
Store(c) ==
    /\ data_' = c.data_
    /\ evictionPolicy_' = c.evictionPolicy_
    /\ expirationPolicy_' = c.expirationPolicy_
    /\ listeners_' = c.listeners_
    /\ events' = c.events

\* a call made on the cache directly
Commit(c) == Store(c) /\ UNCHANGED wrapperVars

\* gone: the keys whose entries the operation dropped from data_
Op(name, key, ret, gone, threw) ==
    [op |-> name, key |-> key, ret |-> ret, gone |-> gone, threw |-> threw]

\* std::shared_mutex, not locked
Unlocked == [writer |-> 0, readers |-> {}]

\* a thread that is in no call
Idle == [pc |-> "idle", op |-> "none", key |-> 0, seen |-> FALSE]

\* a caller that is in no call of the composite
CallerIdle == [pc |-> "idle", op |-> "none", entriesToStop |-> <<>>, next |-> 1, since |-> 0]

\* no ThreadPerListenerComposite exists
NoComposite ==
    /\ entries_ = <<>>
    /\ listenerEntry = <<>>
    /\ callers = [c \in Callers |-> CallerIdle]
    /\ passedTo = <<>>
    /\ delivered = <<>>

\* the cache is used directly: no wrapper object exists, no thread is in a call
NoWrappers ==
    /\ mutex_ = Unlocked
    /\ threads = [t \in Threads |-> Idle]
    /\ totalCapacity_ = 0
    /\ shards_ = <<>>
    /\ shardMutex = <<>>
    /\ skipped = <<>>
    /\ NoComposite

\* ----------------------------------------------------------------- actions
\* The state after Cache(capacity, evictionPolicy, expirationPolicy): the
\* constructor arguments are drawn from the given sets.
Constructed(capacities, evictionPolicies, expirationPolicies) ==
    /\ capacity_ \in capacities
    /\ data_ = EmptyMap
    /\ evictionPolicy_ \in evictionPolicies
    /\ expirationPolicy_ \in expirationPolicies
    /\ listeners_ = <<>>
    /\ now = 0
    /\ events = <<>>
    /\ lastOp = Op("init", 0, {}, {}, FALSE)
    /\ lastPut = EmptyMap
    /\ lastUse = NoUse
    /\ useCount = NoUse
    /\ NoWrappers

Get(key) ==
    /\ CanAccess(key)
    /\ LET r == Cache_get(Self, key, now)
       IN  /\ Commit(r.cache)
           /\ lastOp' = Op("get", key, r.ret, (DOMAIN data_) \ (DOMAIN r.cache.data_), FALSE)
    /\ IF ~Stored(key)
       THEN UNCHANGED <<lastPut, lastUse, useCount>>
       ELSE IF PastDeadline(key)
       THEN /\ lastPut' = MapErase(lastPut, key)
            /\ lastUse' = Forget(lastUse, {key})
            /\ useCount' = CountDrop(useCount, {key})
       ELSE /\ lastPut' = lastPut
            /\ lastUse' = Touch(lastUse, key)
            /\ useCount' = CountAccess(useCount, key)
    /\ UNCHANGED <<capacity_, now>>

Put(key, value, ttl) ==
    /\ CanAccess(key)
    /\ LET c == Cache_put(Self, key, value, ttl, now)
           gone == (DOMAIN data_) \ (DOMAIN c.data_)
       IN  /\ Commit(c)
           /\ lastOp' = Op("put", key, {}, gone, c.threw)
           /\ IF c.threw
              THEN UNCHANGED <<lastPut, lastUse, useCount>>
              ELSE /\ lastPut' = MapSet(Restrict(lastPut, Keys \ gone), key, value)
                   /\ lastUse' = Touch(Forget(lastUse, gone), key)
                   /\ useCount' = IF Stored(key) THEN CountAccess(useCount, key)
                                  ELSE CountInsert(useCount, gone, key)
    /\ UNCHANGED <<capacity_, now>>

Remove(key) ==
    /\ LET r == Cache_remove(Self, key)
       IN  /\ Commit(r.cache)
           /\ lastOp' = Op("remove", key, r.ret, (DOMAIN data_) \ (DOMAIN r.cache.data_), FALSE)
    /\ lastPut' = MapErase(lastPut, key)
    /\ lastUse' = Forget(lastUse, {key})
    /\ useCount' = CountDrop(useCount, {key})
    /\ UNCHANGED <<capacity_, now>>

Clear ==
    /\ LET c == Cache_clear(Self)
       IN  /\ Commit(c)
           /\ lastOp' = Op("clear", 0, {}, (DOMAIN data_) \ (DOMAIN c.data_), FALSE)
    /\ lastPut' = EmptyMap
    /\ lastUse' = NoUse
    /\ useCount' = NoUse
    /\ UNCHANGED <<capacity_, now>>

Contains(key) ==
    /\ Commit(Self)
    /\ lastOp' = Op("contains", key, Cache_contains(Self, key, now), {}, FALSE)
    /\ UNCHANGED <<capacity_, now, lastPut, lastUse, useCount>>

TimeToLive(key) ==
    /\ Commit(Self)
    /\ lastOp' = Op("timeToLive", key, Cache_timeToLive(Self, key, now), {}, FALSE)
    /\ UNCHANGED <<capacity_, now, lastPut, lastUse, useCount>>

RemoveExpired ==
    /\ \E expired \in Orders(Exp_collectExpired(expirationPolicy_, now)) :
          LET r == Cache_removeExpired(Self, expired)
          IN  /\ Commit(r.cache)
              /\ lastOp' = Op("removeExpired", 0, r.ret,
                              (DOMAIN data_) \ (DOMAIN r.cache.data_), FALSE)
    /\ LET gone == {k \in DOMAIN data_ : PastDeadline(k)}
       IN  /\ lastPut' = Restrict(lastPut, Keys \ gone)
           /\ lastUse' = Forget(lastUse, gone)
           /\ useCount' = CountDrop(useCount, gone)
    /\ UNCHANGED <<capacity_, now>>

\* policy: {} is a null pointer, {p} a freshly constructed policy
SetEvictionPolicy(policy) ==
    \E keys \in Orders(DOMAIN data_) :
        LET c == Cache_setEvictionPolicy(Self, policy, keys)
        IN  /\ Commit(c)
            /\ lastOp' = Op("setEvictionPolicy", 0, {}, {}, c.threw)
            /\ IF c.threw
               THEN UNCHANGED <<lastUse, useCount>>
               ELSE /\ lastUse' = TouchAll(NoUse, keys)
                    /\ useCount' = [k \in Keys |->
                                       IF c.evictionPolicy_.kind = "LFU" /\ Stored(k)
                                       THEN 1 ELSE 0]
            /\ UNCHANGED <<capacity_, now, lastPut>>

SetExpirationPolicy(policy) ==
    \E keys \in Orders(DOMAIN data_) :
        /\ Commit(Cache_setExpirationPolicy(Self, policy, keys, now))
        /\ lastOp' = Op("setExpirationPolicy", 0, {}, {}, FALSE)
        /\ UNCHANGED <<capacity_, now, lastPut, lastUse, useCount>>

\* listener: {} is a null pointer, {l} a handle
AddListener(listener) ==
    /\ Len(listeners_) < MaxListeners
    /\ Commit(Cache_addListener(Self, listener))
    /\ lastOp' = Op("addListener", 0, {}, {}, FALSE)
    /\ UNCHANGED <<capacity_, now, lastPut, lastUse, useCount>>

RemoveListener(listener) ==
    /\ Commit(Cache_removeListener(Self, listener))
    /\ lastOp' = Op("removeListener", 0, {}, {}, FALSE)
    /\ UNCHANGED <<capacity_, now, lastPut, lastUse, useCount>>

\* the monotonic clock advances
Tick ==
    /\ now < MaxTime
    /\ now' = now + 1
    /\ events' = <<>>
    /\ lastOp' = Op("tick", 0, {}, {}, FALSE)
    /\ UNCHANGED <<capacity_, data_, evictionPolicy_, expirationPolicy_, listeners_,
                   lastPut, lastUse, useCount>>
    /\ UNCHANGED wrapperVars

\* ---------------------------------------------------------- specifications
\* Every specification runs the same handlers; they differ in the constructor
\* arguments and in the part of the interface the callers use.
NullOr(S) == {{}} \cup {{x} : x \in S}

Ttls == NullOr(0..MaxTtl)

\* Spec: a cache built with an LRU policy and any expiration policy; values
\* are put, read, removed and expire; the LRU policy may be re-installed.
Init == Constructed(1..MaxCapacity, {NewLRUPolicy}, ExpirationPolicies)

Next ==
    \/ \E key \in Keys : Get(key)
    \/ \E key \in Keys, value \in Values, ttl \in Ttls : Put(key, value, ttl)
    \/ \E key \in Keys : Remove(key)
    \/ Clear
    \/ RemoveExpired
    \/ \E policy \in NullOr({NewLRUPolicy}) : SetEvictionPolicy(policy)
    \/ Tick

Spec == Init /\ [][Next]_vars

\* SpecLFU: the same with an LFU policy.
InitLFU == Constructed(1..MaxCapacity, {NewLFUPolicy}, {NewNoExpiration, NewPerKeyTTL({})})

NextLFU ==
    \/ \E key \in Keys : Get(key)
    \/ \E key \in Keys, ttl \in Ttls : Put(key, 1, ttl)
    \/ \E key \in Keys : Remove(key)
    \/ Clear
    \/ RemoveExpired
    \/ \E policy \in NullOr({NewLFUPolicy}) : SetEvictionPolicy(policy)
    \/ Tick

SpecLFU == InitLFU /\ [][NextLFU]_vars

\* SpecPolicies: both kinds of policy are installed and replaced at run time.
InitPolicies == Constructed(1..MaxCapacity, EvictionPolicies, ExpirationPolicies)

NextPolicies ==
    \/ \E key \in Keys : Get(key)
    \/ \E key \in Keys, ttl \in Ttls : Put(key, 1, ttl)
    \/ \E key \in Keys : Remove(key)
    \/ Clear
    \/ RemoveExpired
    \/ \E policy \in NullOr(EvictionPolicies) : SetEvictionPolicy(policy)
    \/ \E policy \in NullOr(ExpirationPolicies) : SetExpirationPolicy(policy)
    \/ Tick

SpecPolicies == InitPolicies /\ [][NextPolicies]_vars

\* SpecEvents: listeners are registered and observe the operations.
InitEvents == Constructed(1..MaxCapacity, {NewLRUPolicy}, {NewPerKeyTTL({})})

NextEvents ==
    \/ \E key \in Keys : Get(key)
    \/ \E key \in Keys, value \in Values, ttl \in Ttls : Put(key, value, ttl)
    \/ \E key \in Keys : Remove(key)
    \/ Clear
    \/ RemoveExpired
    \/ \E listener \in NullOr(Listeners) : AddListener(listener)
    \/ \E listener \in NullOr(Listeners) : RemoveListener(listener)
    \/ Tick

SpecEvents == InitEvents /\ [][NextEvents]_vars

\* SpecObservers: the const queries contains and timeToLive next to the
\* operations that change deadlines.
InitObservers == Constructed(1..MaxCapacity, {NewLRUPolicy}, ExpirationPolicies)

NextObservers ==
    \/ \E key \in Keys : Get(key)
    \/ \E key \in Keys, ttl \in NullOr(Durations) : Put(key, 1, ttl)
    \/ \E key \in Keys : Remove(key)
    \/ RemoveExpired
    \/ \E key \in Keys : Contains(key)
    \/ \E key \in Keys : TimeToLive(key)
    \/ Tick

SpecObservers == InitObservers /\ [][NextObservers]_vars

\* SpecLifecycle: a cache of either eviction kind with deadlines, observed by
\* listeners while entries are stored, read, removed and cleared.
InitLifecycle ==
    Constructed(1..MaxCapacity, EvictionPolicies, {NewGlobalTTL(MaxTtl), NewPerKeyTTL({})})

NextLifecycle ==
    \/ \E key \in Keys : Get(key)
    \/ \E key \in Keys, ttl \in Ttls : Put(key, 1, ttl)
    \/ \E key \in Keys : Remove(key)
    \/ Clear
    \/ \E listener \in NullOr(Listeners) : AddListener(listener)
    \/ \E listener \in NullOr(Listeners) : RemoveListener(listener)
    \/ Tick

SpecLifecycle == InitLifecycle /\ [][NextLifecycle]_vars

\* SpecConstruct: the constructor is called with any arguments, the invalid
\* ones included; a cache that was constructed is then used. lastOp holds the
\* constructor call: key is the capacity argument, ret tells which of the two
\* policy arguments were null.
Exists == capacity_ >= 1 /\ evictionPolicy_.kind # "null"

InitConstruct ==
    \E capacity \in 0..MaxCapacity, evictionPolicy \in NullOr(EvictionPolicies),
       expirationPolicy \in NullOr(ExpirationPolicies) :
        LET c == Cache_new(capacity, evictionPolicy, expirationPolicy)
        IN  /\ capacity_ = c.capacity_
            /\ data_ = c.data_
            /\ evictionPolicy_ = c.evictionPolicy_
            /\ expirationPolicy_ = c.expirationPolicy_
            /\ listeners_ = c.listeners_
            /\ now = 0
            /\ events = c.events
            /\ lastOp = Op("construct", capacity,
                           <<evictionPolicy = {}, expirationPolicy = {}>>, {}, c.threw)
            /\ lastPut = EmptyMap
            /\ lastUse = NoUse
            /\ useCount = NoUse
            /\ NoWrappers

NextConstruct ==
    \/ Exists /\ \E key \in Keys : Get(key)
    \/ Exists /\ \E key \in Keys, ttl \in Ttls : Put(key, 1, ttl)
    \/ Exists /\ Tick

SpecConstruct == InitConstruct /\ [][NextConstruct]_vars

\* ------------------------------------------- threads on a ThreadSafeCache
\* A call of a ThreadSafeCache method by thread t: the lock object is
\* constructed (Enter; the thread is blocked while it cannot lock), the inner
\* cache is called (Call), and the lock object is destroyed when the method
\* returns (Leave). withExclusiveLock runs the closure of the class comment,
\* "if (!inner.contains(key)) inner.put(key, value)", as two calls on the
\* inner cache (ClosureCheck, ClosurePut); seen is what contains returned.
coreFrame ==
    <<capacity_, now, lastOp, lastPut, lastUse, useCount, totalCapacity_, shards_, shardMutex,
      skipped, compositeVars>>

ThreadSafe_Enter(t, method, key) ==
    /\ threads[t].pc = "idle"
    /\ CanLock(mutex_, LockOf(method))
    /\ mutex_' = Lock(mutex_, LockOf(method), t)
    /\ threads' = [threads EXCEPT ![t] = [pc |-> "locked", op |-> method, key |-> key,
                                           seen |-> FALSE]]
    /\ UNCHANGED <<data_, evictionPolicy_, expirationPolicy_, listeners_, events>>
    /\ UNCHANGED coreFrame

ThreadSafe_Call(t) ==
    /\ threads[t].pc = "locked"
    /\ threads[t].op # "withExclusiveLock"
    /\ Store(ThreadSafe_inner(Self, threads[t].op, threads[t].key, now))
    /\ threads' = [threads EXCEPT ![t].pc = "called"]
    /\ UNCHANGED mutex_
    /\ UNCHANGED coreFrame

ThreadSafe_ClosureCheck(t) ==
    /\ threads[t].pc = "locked"
    /\ threads[t].op = "withExclusiveLock"
    /\ threads' = [threads EXCEPT ![t].pc = "checked",
                                   ![t].seen = Cache_contains(Self, threads[t].key, now)]
    /\ UNCHANGED <<data_, evictionPolicy_, expirationPolicy_, listeners_, events, mutex_>>
    /\ UNCHANGED coreFrame

ThreadSafe_ClosurePut(t) ==
    /\ threads[t].pc = "checked"
    /\ Store(IF threads[t].seen THEN Self
             ELSE ThreadSafe_inner(Self, "put", threads[t].key, now))
    /\ threads' = [threads EXCEPT ![t].pc = "called"]
    /\ UNCHANGED mutex_
    /\ UNCHANGED coreFrame

\* the method returns: nothing is being delivered to the listeners any more
ThreadSafe_Leave(t) ==
    /\ threads[t].pc = "called"
    /\ mutex_' = Unlock(mutex_, t)
    /\ threads' = [threads EXCEPT ![t] = Idle]
    /\ events' = <<>>
    /\ UNCHANGED <<data_, evictionPolicy_, expirationPolicy_, listeners_>>
    /\ UNCHANGED coreFrame

\* SpecThreadSafe: NumThreads threads share one ThreadSafeCache wrapping an LRU
\* cache that has a listener registered.
InitThreadSafe ==
    /\ capacity_ \in 1..MaxCapacity
    /\ data_ = EmptyMap
    /\ evictionPolicy_ = NewLRUPolicy
    /\ expirationPolicy_ = NewNoExpiration
    /\ listeners_ = <<1>>
    /\ now = 0
    /\ events = <<>>
    /\ lastOp = Op("init", 0, {}, {}, FALSE)
    /\ lastPut = EmptyMap
    /\ lastUse = NoUse
    /\ useCount = NoUse
    /\ NoWrappers

NextThreadSafe ==
    \/ \E t \in Threads, method \in {"get", "put", "remove", "contains", "withExclusiveLock"},
          key \in Keys : ThreadSafe_Enter(t, method, key)
    \/ \E t \in Threads, method \in {"clear", "size", "capacity"} : ThreadSafe_Enter(t, method, 0)
    \/ \E t \in Threads : ThreadSafe_Call(t)
    \/ \E t \in Threads : ThreadSafe_ClosureCheck(t)
    \/ \E t \in Threads : ThreadSafe_ClosurePut(t)
    \/ \E t \in Threads : ThreadSafe_Leave(t)

SpecThreadSafe == InitThreadSafe /\ [][NextThreadSafe]_vars

\* ------------------------------------------------- calls on a ShardedCache
\* The methods are called one at a time. lastOp.gone holds the keys the call
\* dropped from the shards; events holds what the listeners of the shards were
\* told during the call.
ShardedKeys(s) == UNION {DOMAIN s[i].data_ : i \in ShardIndices}

shardedFrame ==
    <<capacity_, data_, evictionPolicy_, expirationPolicy_, listeners_, now,
      lastPut, lastUse, useCount, mutex_, threads, totalCapacity_, shardMutex, skipped,
      compositeVars>>

ShardedDone(name, key, r) ==
    /\ shards_' = [i \in ShardIndices |-> ShardSelf(r.shards, i)]
    /\ events' = r.events
    /\ lastOp' = Op(name, key, r.ret, ShardedKeys(shards_) \ ShardedKeys(r.shards), FALSE)
    /\ UNCHANGED shardedFrame

\* a ShardedCache was constructed
ShardedExists == totalCapacity_ >= 1

ShardedGet(key) ==
    /\ ShardedExists
    /\ ShardedDone("get", key, Sharded_get(shards_, key, now))

ShardedPut(key, value) ==
    /\ ShardedExists
    /\ ShardedDone("put", key, Sharded_put(shards_, key, value, now))

ShardedRemove(key) ==
    /\ ShardedExists
    /\ ShardedDone("remove", key, Sharded_remove(shards_, key))

ShardedClear ==
    /\ ShardedExists
    /\ ShardedDone("clear", 0, Sharded_clear(shards_))

ShardedSize ==
    /\ ShardedExists
    /\ ShardedDone("size", 0,
                   [shards |-> shards_, ret |-> Sharded_size(shards_), events |-> <<>>])

ShardedContains(key) ==
    /\ ShardedExists
    /\ ShardedDone("contains", key,
                   [shards |-> shards_, ret |-> Sharded_contains(shards_, key, now),
                    events |-> <<>>])

\* SpecSharded: a ShardedCache<K, V, ShardCount> of any total capacity.
InitSharded ==
    \E totalCapacity \in 1..MaxTotalCapacity :
        /\ capacity_ = 1
        /\ data_ = EmptyMap
        /\ evictionPolicy_ = NewLRUPolicy
        /\ expirationPolicy_ = NewNoExpiration
        /\ listeners_ = <<>>
        /\ now = 0
        /\ events = <<>>
        /\ lastOp = Op("init", 0, {}, {}, FALSE)
        /\ lastPut = EmptyMap
        /\ lastUse = NoUse
        /\ useCount = NoUse
        /\ mutex_ = Unlocked
        /\ threads = [t \in Threads |-> Idle]
        /\ totalCapacity_ = ShardedCache_new(totalCapacity).totalCapacity_
        /\ shards_ = ShardedCache_new(totalCapacity).shards_
        /\ shardMutex = [i \in ShardIndices |-> Unlocked]
        /\ skipped = <<>>
        /\ NoComposite

NextSharded ==
    \/ \E key \in Keys : ShardedGet(key)
    \/ \E key \in Keys, value \in Values : ShardedPut(key, value)
    \/ \E key \in Keys : ShardedRemove(key)
    \/ ShardedClear
    \/ ShardedSize
    \/ \E key \in Keys : ShardedContains(key)

SpecSharded == InitSharded /\ [][NextSharded]_vars

\* -------------------------------------------------- threads on a ShardedCache
\* A call of a ShardedCache method by thread t. Begin: the method is entered
\* and the thread is about to construct the lock object of the shard it
\* visits. Lock: the lock object is constructed (the thread is blocked while
\* it cannot lock) and the call on the shard's cache starts; view is the cache
\* of the shard as the call finds it. Unlock: the call on the shard's cache
\* ends, having changed the cache it found, and the lock object is destroyed;
\* clear and size then go on to the next shard, the other methods return.
\* total is the local variable of size().
ShardIdle ==
    [pc |-> "idle", op |-> "none", key |-> 0, value |-> 0, shard |-> 0, view |-> <<>>,
     total |-> 0]

shardThreadFrame ==
    <<capacity_, data_, evictionPolicy_, expirationPolicy_, listeners_, now, events, lastOp,
      lastUse, useCount, mutex_, totalCapacity_, skipped, compositeVars>>

Sharded_Enter(t, method, key, value) ==
    /\ threads[t].pc = "idle"
    /\ threads' = [threads EXCEPT ![t] = [ShardIdle EXCEPT !.pc = "want", !.op = method,
                                                            !.key = key, !.value = value,
                                                            !.shard = FirstShard(method, key)]]
    /\ UNCHANGED <<shards_, shardMutex>>
    /\ UNCHANGED shardThreadFrame

Sharded_Begin(t, method, key, value) ==
    /\ Sharded_Enter(t, method, key, value)
    /\ UNCHANGED lastPut

\* a thread of writers that put distinct keys: lastPut records what was put
Sharded_BeginPut(t, key, value) ==
    /\ key \notin DOMAIN lastPut
    /\ Sharded_Enter(t, "put", key, value)
    /\ lastPut' = MapSet(lastPut, key, value)

Sharded_Lock(t) ==
    LET i == threads[t].shard
        kind == ShardLockOf(threads[t].op)
    IN  /\ threads[t].pc = "want"
        /\ CanLock(shardMutex[i], kind)
        /\ shardMutex' = [shardMutex EXCEPT ![i] = Lock(@, kind, t)]
        /\ threads' = [threads EXCEPT ![t].pc = "locked", ![t].view = ShardSelf(shards_, i)]
        /\ UNCHANGED <<shards_, lastPut>>
        /\ UNCHANGED shardThreadFrame

Sharded_Unlock(t) ==
    LET th == threads[t]
        i == th.shard
    IN  /\ th.pc = "locked"
        /\ shards_' =
              IF th.op \in {"get", "put", "remove", "clear"}
              THEN [shards_ EXCEPT
                       ![i] = [Shard_inner(th.view, th.op, th.key, th.value, now)
                                  EXCEPT !.events = <<>>, !.threw = FALSE]]
              ELSE shards_
        /\ shardMutex' = [shardMutex EXCEPT ![i] = Unlock(@, t)]
        /\ threads' =
              IF HasNextShard(th.op, i)
              THEN [threads EXCEPT ![t].pc = "want", ![t].shard = i + 1, ![t].view = <<>>,
                                   ![t].total = IF th.op = "size"
                                                THEN @ + Cache_size(shards_[i]) ELSE @]
              ELSE [threads EXCEPT ![t] = ShardIdle]
        /\ UNCHANGED lastPut
        /\ UNCHANGED shardThreadFrame

InitShardedThreads ==
    \E totalCapacity \in 1..MaxTotalCapacity :
        /\ capacity_ = 1
        /\ data_ = EmptyMap
        /\ evictionPolicy_ = NewLRUPolicy
        /\ expirationPolicy_ = NewNoExpiration
        /\ listeners_ = <<>>
        /\ now = 0
        /\ events = <<>>
        /\ lastOp = Op("init", 0, {}, {}, FALSE)
        /\ lastPut = EmptyMap
        /\ lastUse = NoUse
        /\ useCount = NoUse
        /\ mutex_ = Unlocked
        /\ threads = [t \in Threads |-> ShardIdle]
        /\ totalCapacity_ = ShardedCache_new(totalCapacity).totalCapacity_
        /\ shards_ = ShardedCache_new(totalCapacity).shards_
        /\ shardMutex = [i \in ShardIndices |-> Unlocked]
        /\ skipped = <<>>
        /\ NoComposite

\* SpecShardedThreads: NumThreads threads call any method of one ShardedCache.
NextShardedThreads ==
    \/ \E t \in Threads, method \in {"get", "put", "remove", "contains"}, key \in Keys :
          Sharded_Begin(t, method, key, 1)
    \/ \E t \in Threads, method \in {"clear", "size"} : Sharded_Begin(t, method, 0, 0)
    \/ \E t \in Threads : Sharded_Lock(t)
    \/ \E t \in Threads : Sharded_Unlock(t)

SpecShardedThreads == InitShardedThreads /\ [][NextShardedThreads]_vars

\* SpecShardedWriters: NumThreads threads put keys into one ShardedCache, no
\* key twice.
NextShardedWriters ==
    \/ \E t \in Threads, key \in Keys, value \in Values : Sharded_BeginPut(t, key, value)
    \/ \E t \in Threads : Sharded_Lock(t)
    \/ \E t \in Threads : Sharded_Unlock(t)

SpecShardedWriters == InitShardedThreads /\ [][NextShardedWriters]_vars

\* ------------------------------------ a ThreadPerListenerComposite at work
\* Producers pass events to the composite (any of its onX callbacks, each a
\* broadcast); callers add and remove listeners and stop it; the thread of
\* every entry runs workerLoop. removeListener and stop are a section under
\* mutex_ (Composite_removeListener, Composite_stop) followed, per entry to
\* stop, by stopEntry up to the join (Composite_stopEntry) and the join
\* (Composite_join); Composite_return is the return of the call. In a caller,
\* entriesToStop holds the entries the call took out of entries_, next the
\* position of the one it is stopping, since the number of events passed
\* before a call of stop.
compositeFrame ==
    <<capacity_, data_, evictionPolicy_, expirationPolicy_, listeners_, now, events, lastOp,
      lastPut, lastUse, useCount, mutex_, threads, totalCapacity_, shards_, shardMutex, skipped>>

\* addListener(listener): a null handle is ignored
Composite_addListener(listener) ==
    /\ Len(listenerEntry) < MaxEntries
    /\ IF listener = {}
       THEN UNCHANGED <<entries_, listenerEntry, delivered>>
       ELSE LET e == Len(listenerEntry) + 1
            IN  /\ listenerEntry' =
                      Append(listenerEntry, NewListenerEntry(CHOOSE l \in listener : TRUE))
                /\ entries_' = Append(entries_, e)
                /\ delivered' = Append(delivered, <<>>)
    /\ UNCHANGED <<callers, passedTo>>
    /\ UNCHANGED compositeFrame

Composite_removeListener(c, listener) ==
    /\ callers[c].pc = "idle"
    /\ LET n == IF listener = {} THEN 0
                ELSE FindEntry(entries_, listenerEntry, CHOOSE l \in listener : TRUE)
       IN  /\ entries_' = IF n = 0 THEN entries_ ELSE EraseAt(entries_, n)
           /\ callers' = [callers EXCEPT ![c] =
                  [pc |-> "stopping", op |-> "removeListener",
                   entriesToStop |-> IF n = 0 THEN <<>> ELSE <<entries_[n]>>,
                   next |-> 1, since |-> 0]]
    /\ UNCHANGED <<listenerEntry, passedTo, delivered>>
    /\ UNCHANGED compositeFrame

\* stop(), also the destructor: entries_ is moved into entriesToStop
Composite_stop(c) ==
    /\ callers[c].pc = "idle"
    /\ entries_' = <<>>
    /\ callers' = [callers EXCEPT ![c] =
           [pc |-> "stopping", op |-> "stop", entriesToStop |-> entries_, next |-> 1,
            since |-> Len(passedTo)]]
    /\ UNCHANGED <<listenerEntry, passedTo, delivered>>
    /\ UNCHANGED compositeFrame

Composite_stopEntry(c) ==
    /\ callers[c].pc = "stopping"
    /\ callers[c].next <= Len(callers[c].entriesToStop)
    /\ LET e == callers[c].entriesToStop[callers[c].next]
       IN  listenerEntry' = [listenerEntry EXCEPT ![e] = stopEntry(@)]
    /\ callers' = [callers EXCEPT ![c].pc = "join"]
    /\ UNCHANGED <<entries_, passedTo, delivered>>
    /\ UNCHANGED compositeFrame

Composite_join(c) ==
    /\ callers[c].pc = "join"
    /\ ThreadEnded(listenerEntry[callers[c].entriesToStop[callers[c].next]])
    /\ callers' = [callers EXCEPT ![c].pc = "stopping", ![c].next = @ + 1]
    /\ UNCHANGED <<entries_, listenerEntry, passedTo, delivered>>
    /\ UNCHANGED compositeFrame

Composite_return(c) ==
    /\ callers[c].pc = "stopping"
    /\ callers[c].next > Len(callers[c].entriesToStop)
    /\ callers' = [callers EXCEPT ![c] = CallerIdle]
    /\ UNCHANGED <<entries_, listenerEntry, passedTo, delivered>>
    /\ UNCHANGED compositeFrame

\* onHit, onMiss, onInsert, onUpdate, onEvict, onRemove, onClear of the
\* composite: the event is the next in number
Composite_broadcast ==
    /\ Len(passedTo) < MaxEvents
    /\ \A e \in EntrySet(entries_) : Queue_canPush(listenerEntry[e].queue)
    /\ listenerEntry' = broadcast(entries_, listenerEntry, Len(passedTo) + 1)
    /\ passedTo' = Append(passedTo, EntrySet(entries_))
    /\ UNCHANGED <<entries_, callers, delivered>>
    /\ UNCHANGED compositeFrame

\* One turn of while (entry->running) { if (entry->queue.tryPop(command,
\* timeout)) executeCommand(command); }: the test and the tryPop that follows
\* it are one step (a stop signal between the two changes only which of the
\* loop and drainQueue pops the next command). With nothing queued tryPop
\* returns false on the timeout and the loop takes another turn.
Worker_loop(e) ==
    /\ e \in DOMAIN listenerEntry
    /\ listenerEntry[e].pc = "loop"
    /\ LET r == Queue_tryPop(listenerEntry[e].queue)
       IN  listenerEntry' = [listenerEntry EXCEPT
               ![e] = IF ~@.running THEN workerLoop_exit(@)
                      ELSE [@ EXCEPT !.queue = r.queue, !.command = r.item,
                                     !.pc = IF r.popped THEN "exec" ELSE "loop"]]
    /\ UNCHANGED <<entries_, callers, passedTo, delivered>>
    /\ UNCHANGED compositeFrame

\* while (entry->queue.tryPopImmediate(command)) of drainQueue
Worker_drain(e) ==
    /\ e \in DOMAIN listenerEntry
    /\ listenerEntry[e].pc = "drain"
    /\ LET r == Queue_tryPopImmediate(listenerEntry[e].queue)
       IN  listenerEntry' = [listenerEntry EXCEPT
               ![e] = [@ EXCEPT !.queue = r.queue, !.command = r.item,
                                !.pc = IF r.popped THEN "drainExec" ELSE "done"]]
    /\ UNCHANGED <<entries_, callers, passedTo, delivered>>
    /\ UNCHANGED compositeFrame

\* the callback of the listener has been called with the event and has
\* returned or thrown
Worker_execute(e) ==
    /\ e \in DOMAIN listenerEntry
    /\ listenerEntry[e].pc \in {"exec", "drainExec"}
    /\ delivered' = [delivered EXCEPT ![e] = Append(@, listenerEntry[e].command)]
    /\ listenerEntry' = [listenerEntry EXCEPT
           ![e] = executeCommand(@, IF @.pc = "exec" THEN "loop" ELSE "drain")]
    /\ UNCHANGED <<entries_, callers, passedTo>>
    /\ UNCHANGED compositeFrame

Worker(e) == Worker_loop(e) \/ Worker_drain(e) \/ Worker_execute(e)

Caller(c) == Composite_stopEntry(c) \/ Composite_join(c) \/ Composite_return(c)

\* SpecComposite: a composite constructed without listeners.
InitComposite == Constructed({1}, {NewLRUPolicy}, {NewNoExpiration})

NextComposite ==
    \/ \E listener \in NullOr(AnyListeners) : Composite_addListener(listener)
    \/ \E c \in Callers, listener \in NullOr(AnyListeners) : Composite_removeListener(c, listener)
    \/ \E c \in Callers : Composite_stop(c)
    \/ \E c \in Callers : Composite_stopEntry(c)
    \/ \E c \in Callers : Composite_join(c)
    \/ \E c \in Callers : Composite_return(c)
    \/ Composite_broadcast
    \/ \E e \in 1..MaxEntries : Worker_loop(e)
    \/ \E e \in 1..MaxEntries : Worker_drain(e)
    \/ \E e \in 1..MaxEntries : Worker_execute(e)

\* --------------------------------------------------- size() next to contains
SizeCall ==
    /\ Commit(Self)
    /\ lastOp' = Op("size", 0, Cache_size(Self), {}, FALSE)
    /\ UNCHANGED <<capacity_, now, lastPut, lastUse, useCount>>

\* SpecSize: entries with deadlines are stored and expire; size and contains
\* are asked at any time.
InitSize == Constructed(1..MaxCapacity, {NewLRUPolicy}, {NewGlobalTTL(MaxTtl), NewPerKeyTTL({})})

NextSize ==
    \/ \E key \in Keys : Get(key)
    \/ \E key \in Keys, ttl \in Ttls : Put(key, 1, ttl)
    \/ RemoveExpired
    \/ \E key \in Keys : Contains(key)
    \/ SizeCall
    \/ Tick

SpecSize == InitSize /\ [][NextSize]_vars

\* ------------------------------- threads passing events to one composite
\* A thread calls onHit ... onClear of the composite: the call is made
\* (Bcast_call; the event is numbered by the order of the calls), broadcast
\* takes mutex_ (Bcast_lock; the thread is blocked while another holds it),
\* pushes the command into the queue of every entry, one entry per step
\* (Bcast_push), and releases mutex_ on return. addListener and stop take
\* mutex_ for their section on entries_. passedTo is appended in the order
\* in which the calls get mutex_.
BcastIdle == [pc |-> "idle", event |-> 0, next |-> 1]

\* variant: broadcast walks entries_ without holding mutex_
BroadcastHolds_nothing(th) == FALSE

\* std::lock_guard<std::mutex> lock(mutex_) of broadcast: held from before
\* the first push until the call returns
BroadcastHolds(th) == th.pc = "pushing"

CompositeMutexFree == \A t \in Threads : ~BroadcastHolds(threads[t])

\* the number of calls of onHit ... onClear made so far
Issued == Len(passedTo) + Cardinality({t \in Threads : threads[t].pc = "waiting"})

bcastFrame ==
    <<capacity_, data_, evictionPolicy_, expirationPolicy_, listeners_, now, events, lastOp,
      lastPut, lastUse, useCount, mutex_, totalCapacity_, shards_, shardMutex, skipped>>

Bcast_addListener(listener) ==
    /\ CompositeMutexFree
    /\ Composite_addListener(listener)

Bcast_stop(c) ==
    /\ CompositeMutexFree
    /\ Composite_stop(c)

Bcast_call(t) ==
    /\ threads[t].pc = "idle"
    /\ Issued < MaxEvents
    /\ threads' = [threads EXCEPT ![t] = [pc |-> "waiting", event |-> Issued + 1, next |-> 1]]
    /\ UNCHANGED compositeVars
    /\ UNCHANGED bcastFrame

Bcast_lock(t) ==
    /\ threads[t].pc = "waiting"
    /\ CompositeMutexFree
    /\ threads' = [threads EXCEPT ![t].pc = "pushing"]
    /\ passedTo' = Append(passedTo, EntrySet(entries_))
    /\ UNCHANGED <<entries_, listenerEntry, callers, delivered>>
    /\ UNCHANGED bcastFrame

\* one round of for (auto& entry : entries_) entry->queue.push(...), or the
\* end of the loop and the return of the call
Bcast_push(t) ==
    /\ threads[t].pc = "pushing"
    /\ IF threads[t].next <= Len(entries_)
       THEN /\ listenerEntry' = [listenerEntry EXCEPT
                   ![entries_[threads[t].next]].queue = Queue_push(@, threads[t].event)]
            /\ threads' = [threads EXCEPT ![t].next = @ + 1]
       ELSE /\ threads' = [threads EXCEPT ![t] = BcastIdle]
            /\ UNCHANGED listenerEntry
    /\ UNCHANGED <<entries_, callers, passedTo, delivered>>
    /\ UNCHANGED bcastFrame

\* SpecCompositeThreads: NumThreads threads pass events to one composite
\* while listeners are added and the composite is stopped.
InitCompositeThreads ==
    /\ capacity_ = 1
    /\ data_ = EmptyMap
    /\ evictionPolicy_ = NewLRUPolicy
    /\ expirationPolicy_ = NewNoExpiration
    /\ listeners_ = <<>>
    /\ now = 0
    /\ events = <<>>
    /\ lastOp = Op("init", 0, {}, {}, FALSE)
    /\ lastPut = EmptyMap
    /\ lastUse = NoUse
    /\ useCount = NoUse
    /\ mutex_ = Unlocked
    /\ threads = [t \in Threads |-> BcastIdle]
    /\ totalCapacity_ = 0
    /\ shards_ = <<>>
    /\ shardMutex = <<>>
    /\ skipped = <<>>
    /\ NoComposite

NextCompositeThreads ==
    \/ \E listener \in NullOr(AnyListeners) : Bcast_addListener(listener)
    \/ Bcast_stop(1)
    \/ Composite_stopEntry(1)
    \/ Composite_join(1)
    \/ Composite_return(1)
    \/ \E t \in Threads : Bcast_call(t)
    \/ \E t \in Threads : Bcast_lock(t)
    \/ \E t \in Threads : Bcast_push(t)
    \/ \E e \in 1..MaxEntries : Worker_loop(e)
    \/ \E e \in 1..MaxEntries : Worker_drain(e)
    \/ \E e \in 1..MaxEntries : Worker_execute(e)

SpecCompositeThreads == InitCompositeThreads /\ [][NextCompositeThreads]_vars

\* ------------------------------------------- PerKeyTTL with a default TTL
\* put(key, value, ttl) with the ttl argument kept in lastOp.ret
PutTtl(key, ttl) ==
    /\ LET c == Cache_put(Self, key, 1, ttl, now)
           gone == (DOMAIN data_) \ (DOMAIN c.data_)
       IN  /\ Commit(c)
           /\ lastOp' = Op("put", key, ttl, gone, c.threw)
           /\ lastPut' = MapSet(Restrict(lastPut, Keys \ gone), key, 1)
           /\ lastUse' = Touch(Forget(lastUse, gone), key)
           /\ useCount' = IF Stored(key) THEN CountAccess(useCount, key)
                          ELSE CountInsert(useCount, gone, key)
    /\ UNCHANGED <<capacity_, now>>

\* SpecDefaultTtl: a cache whose PerKeyTTL policy was constructed with a
\* default (the constructor takes any duration); put is called without ttl and
\* with any ttl, the non-positive ones included.
InitDefaultTtl ==
    Constructed(1..MaxCapacity, {NewLRUPolicy}, {NewPerKeyTTL({d}) : d \in (-1)..MaxDefaultTtl})

NextDefaultTtl ==
    \/ \E key \in Keys, ttl \in NullOr(Durations) : PutTtl(key, ttl)
    \/ \E key \in Keys : Get(key)
    \/ \E key \in Keys : Remove(key)
    \/ Tick

SpecDefaultTtl == InitDefaultTtl /\ [][NextDefaultTtl]_vars

\* ------------------------------------------- an eviction policy on its own
\* The policy object is driven directly, as the policy tests do: onInsert is
\* called for keys the policy does not track (the documented use), the other
\* methods for any key. lastOp holds the call; for selectVictim ret is the
\* returned key and threw tells that std::logic_error was thrown.
Ev_tracks(p, key) ==
    IF p.kind = "LRU" THEN key \in p.keyToIterator_ ELSE key \in DOMAIN p.frequencyMap_

evictionFrame ==
    <<capacity_, data_, expirationPolicy_, listeners_, now, events, lastPut, lastUse, useCount>>

Eviction_onInsert(key) ==
    /\ ~Ev_tracks(evictionPolicy_, key)
    /\ evictionPolicy_' = Ev_onInsert(evictionPolicy_, key)
    /\ lastOp' = Op("onInsert", key, {}, {}, FALSE)
    /\ UNCHANGED evictionFrame
    /\ UNCHANGED wrapperVars

\* the frequency counter stays within the modelled range
Eviction_onAccess(key) ==
    /\ (evictionPolicy_.kind = "LFU" /\ key \in DOMAIN evictionPolicy_.frequencyMap_)
          => evictionPolicy_.frequencyMap_[key] < MaxPolicyFreq
    /\ evictionPolicy_' = Ev_onAccess(evictionPolicy_, key)
    /\ lastOp' = Op("onAccess", key, {}, {}, FALSE)
    /\ UNCHANGED evictionFrame
    /\ UNCHANGED wrapperVars

Eviction_onRemove(key) ==
    /\ evictionPolicy_' = Ev_onRemove(evictionPolicy_, key)
    /\ lastOp' = Op("onRemove", key, {}, {key}, FALSE)
    /\ UNCHANGED evictionFrame
    /\ UNCHANGED wrapperVars

Eviction_clear ==
    /\ evictionPolicy_' = Ev_clear(evictionPolicy_)
    /\ lastOp' = Op("policyClear", 0, {}, {}, FALSE)
    /\ UNCHANGED evictionFrame
    /\ UNCHANGED wrapperVars

Eviction_selectVictim ==
    /\ IF Ev_empty(evictionPolicy_)
       THEN /\ evictionPolicy_' = evictionPolicy_
            /\ lastOp' = Op("selectVictim", 0, {}, {}, TRUE)
       ELSE LET sv == Ev_selectVictim(evictionPolicy_)
            IN  /\ evictionPolicy_' = sv.policy
                /\ lastOp' = Op("selectVictim", 0, {sv.victim}, {}, FALSE)
    /\ UNCHANGED evictionFrame
    /\ UNCHANGED wrapperVars

\* SpecEviction: one eviction policy of either class.
InitEviction == Constructed({1}, EvictionPolicies, {NewNoExpiration})

NextEviction ==
    \/ \E key \in Keys : Eviction_onInsert(key)
    \/ \E key \in Keys : Eviction_onAccess(key)
    \/ \E key \in Keys : Eviction_onRemove(key)
    \/ Eviction_clear
    \/ Eviction_selectVictim

SpecEviction == InitEviction /\ [][NextEviction]_vars

\* ------------------------------------------ listeners whose callbacks throw
\* The cache is called by a caller that catches what the call throws: the
\* members are as the call left them, lastOp.threw tells that the call was
\* left by an exception (it then returned nothing), and skipped holds the
\* listeners that were not called.
throwingFrame ==
    <<capacity_, now, lastPut, lastUse, useCount, mutex_, threads, totalCapacity_, shards_,
      shardMutex, compositeVars>>

Caught(name, key, c, ret) ==
    /\ Store(c)
    /\ skipped' = c.skipped
    /\ lastOp' = Op(name, key, IF c.threw THEN {} ELSE ret,
                    (DOMAIN data_) \ (DOMAIN c.data_), c.threw)
    /\ UNCHANGED throwingFrame

Guarded_get(key) ==
    /\ Exists
    /\ LET r == Cache_get(Self, key, now)
       IN  Caught("get", key, r.cache, r.ret)

Guarded_put(key, value) ==
    /\ Exists
    /\ Caught("put", key, Cache_put(Self, key, value, {}, now), {})

Guarded_remove(key) ==
    /\ Exists
    /\ LET r == Cache_remove(Self, key)
       IN  Caught("remove", key, r.cache, {r.ret})

Guarded_clear ==
    /\ Exists
    /\ Caught("clear", 0, Cache_clear(Self), {})

Guarded_addListener(listener) ==
    /\ Len(listeners_) < MaxRegistered
    /\ Caught("addListener", 0, Cache_addListener(Self, listener), {})

Guarded_removeListener(listener) ==
    /\ Exists
    /\ Caught("removeListener", 0, Cache_removeListener(Self, listener), {})

\* SpecThrowing: an LRU cache whose listeners may throw; entries expire under
\* GlobalTTL.
InitThrowing == Constructed(1..MaxCapacity, {NewLRUPolicy}, {NewNoExpiration, NewGlobalTTL(MaxTtl)})

NextThrowing ==
    \/ \E key \in Keys : Guarded_get(key)
    \/ \E key \in Keys, value \in Values : Guarded_put(key, value)
    \/ \E key \in Keys : Guarded_remove(key)
    \/ Guarded_clear
    \/ \E listener \in NullOr(AnyListeners) : Guarded_addListener(listener)
    \/ \E listener \in NullOr(AnyListeners) : Guarded_removeListener(listener)
    \/ Tick

SpecThrowing == InitThrowing /\ [][NextThrowing]_vars

SpecComposite == InitComposite /\ [][NextComposite]_vars

\* SpecCompositeLive: every thread that can take a step is scheduled in the
\* end, and every callback returns or throws in the end.
SpecCompositeLive ==
    /\ InitComposite
    /\ [][NextComposite]_vars
    /\ \A e \in 1..MaxEntries : WF_vars(Worker(e))
    /\ \A c \in Callers : WF_vars(Caller(c))

\* ------------------------------------ an expiration policy used on its own
\* The policy object is driven through the IExpirationPolicy interface by a
\* caller other than Cache (as in PerKeyTTLTest); the cache members stay as
\* constructed. lastOp.ret holds the customTtl argument of onInsert, and
\* lastOp.gone the keys whose deadline record the call erased.
Tracked(e) == IF e.kind = "NoExpiration" THEN {} ELSE DOMAIN e.expirationTimes_

Expiration_onInsert(key, customTtl) ==
    /\ expirationPolicy_' = Exp_onInsert(expirationPolicy_, key, customTtl, now)
    /\ lastOp' = Op("onInsert", key, customTtl,
                    Tracked(expirationPolicy_) \ Tracked(expirationPolicy_'), FALSE)
    /\ UNCHANGED <<capacity_, data_, evictionPolicy_, listeners_, now, events,
                   lastPut, lastUse, useCount>>
    /\ UNCHANGED wrapperVars

Expiration_onRemove(key) ==
    /\ expirationPolicy_' = Exp_onRemove(expirationPolicy_, key)
    /\ lastOp' = Op("onRemove", key, {},
                    Tracked(expirationPolicy_) \ Tracked(expirationPolicy_'), FALSE)
    /\ UNCHANGED <<capacity_, data_, evictionPolicy_, listeners_, now, events,
                   lastPut, lastUse, useCount>>
    /\ UNCHANGED wrapperVars

Expiration_clear ==
    /\ expirationPolicy_' = Exp_clear(expirationPolicy_)
    /\ lastOp' = Op("policyClear", 0, {}, Tracked(expirationPolicy_), FALSE)
    /\ UNCHANGED <<capacity_, data_, evictionPolicy_, listeners_, now, events,
                   lastPut, lastUse, useCount>>
    /\ UNCHANGED wrapperVars

Expiration_isExpired(key) ==
    /\ lastOp' = Op("isExpired", key, Exp_isExpired(expirationPolicy_, key, now), {}, FALSE)
    /\ UNCHANGED <<capacity_, data_, evictionPolicy_, expirationPolicy_, listeners_, now,
                   events, lastPut, lastUse, useCount>>
    /\ UNCHANGED wrapperVars

\* SpecExpiration: one expiration policy of any class, PerKeyTTL with or
\* without a default; custom TTLs include the non-positive ones.
InitExpiration ==
    Constructed({1}, {NewLRUPolicy},
                {NewNoExpiration}
                \cup {NewGlobalTTL(d) : d \in 1..MaxDefaultTtl}
                \cup {NewPerKeyTTL(d) : d \in NullOr(1..MaxDefaultTtl)})

NextExpiration ==
    \/ \E key \in Keys, customTtl \in NullOr(Durations) : Expiration_onInsert(key, customTtl)
    \/ \E key \in Keys : Expiration_onRemove(key)
    \/ Expiration_clear
    \/ \E key \in Keys : Expiration_isExpired(key)
    \/ Tick

SpecExpiration == InitExpiration /\ [][NextExpiration]_vars

\* ------------------------------------------------------------------ claims
Size == Cardinality(DOMAIN data_)

EventsOf(log, type) == {i \in 1..Len(log) : log[i][1] = type}

\* the deadline recorded for key, as an optional
DeadlineOf(key) ==
    IF expirationPolicy_.kind # "NoExpiration" /\ key \in DOMAIN expirationPolicy_.expirationTimes_
    THEN {expirationPolicy_.expirationTimes_[key]}
    ELSE {}

\* C1: after any sequence of put (with or without TTL), get, remove, clear,
\* removeExpired, setEvictionPolicy and setExpirationPolicy on a cache of
\* capacity C >= 1, size() <= C.
C1_SizeWithinCapacity == capacity_ >= 1 /\ Size <= capacity_

\* a put that had to evict, in a full cache whose policies were both replaced
C1_Witness ==
    /\ lastOp.op = "put"
    /\ lastOp.gone # {}
    /\ Size = capacity_
    /\ evictionPolicy_.kind = "LFU"
    /\ expirationPolicy_.kind = "GlobalTTL"

\* C2: get(k) returns the value of the most recent put(k, .) when k has not
\* since been removed, evicted, cleared or expired, and returns empty otherwise.
\* (lastPut is the value of the latest put unless the entry was dropped since;
\* expired: the deadline held for k has passed when get is called.)
C2_GetReturnsLatestPut ==
    [][lastOp'.op = "get" =>
          LET k == lastOp'.key
          IN  lastOp'.ret = IF k \in DOMAIN lastPut /\ ~PastDeadline(k)
                            THEN {lastPut[k]} ELSE {}]_vars

\* a get that returned the second value put for its key, after time has passed
C2_Witness ==
    /\ lastOp.op = "get"
    /\ lastOp.ret = {2}
    /\ now > 0
    /\ DeadlineOf(lastOp.key) # {}

\* C3: with the LRU policy the key chosen for eviction is the stored key whose
\* most recent insert, update or successful get is the oldest, and no other
\* stored key is as old (there is never a tie).
C3_LRUEvictsOldestUse ==
    [][(lastOp'.op = "put" /\ lastOp'.gone # {} /\ evictionPolicy_.kind = "LRU") =>
          \E victim \in DOMAIN data_ :
              /\ lastOp'.gone = {victim}
              /\ \A k \in (DOMAIN data_) \ {victim} : lastUse[victim] < lastUse[k]]_vars

\* an LRU eviction from a full cache that holds at least two entries
C3_Witness ==
    /\ lastOp.op = "put"
    /\ lastOp.gone # {}
    /\ capacity_ >= 2
    /\ evictionPolicy_.kind = "LRU"
    /\ Size = capacity_

\* C4: with the LFU policy, a key of lower frequency (1 at insert, +1 per
\* access) is chosen as victim before any key of higher frequency; among the
\* keys of the lowest frequency the one whose last insert or access is the
\* oldest is chosen.
C4_LFUEvictsLeastFrequent ==
    [][(lastOp'.op = "put" /\ lastOp'.gone # {} /\ evictionPolicy_.kind = "LFU") =>
          \E victim \in DOMAIN data_ :
              /\ lastOp'.gone = {victim}
              /\ \A k \in (DOMAIN data_) \ {victim} :
                    \/ useCount[victim] < useCount[k]
                    \/ (useCount[victim] = useCount[k] /\ lastUse[victim] < lastUse[k])]_vars

\* an LFU eviction after which the surviving old entry has been used more
\* often than once
C4_Witness ==
    /\ lastOp.op = "put"
    /\ lastOp.gone # {}
    /\ capacity_ >= 2
    /\ evictionPolicy_.kind = "LFU"
    /\ \E k \in DOMAIN data_ : useCount[k] > 1

\* C5: each put emits exactly one Insert or exactly one Update, never both;
\* an Evict is emitted only when the put adds a new key while
\* size() = capacity(), at most one per put, and before that put's Insert.
C5_PutEvents ==
    [][(lastOp'.op = "put" /\ listeners_ # <<>>) =>
          LET inserts == EventsOf(events', "Insert")
              updates == EventsOf(events', "Update")
              evicts == EventsOf(events', "Evict")
          IN  /\ Cardinality(inserts) + Cardinality(updates) = 1
              /\ Cardinality(evicts) <= 1
              /\ Len(events') = Cardinality(inserts \cup updates \cup evicts)
              /\ evicts # {} =>
                    /\ lastOp'.key \notin DOMAIN data_
                    /\ Size = capacity_
                    /\ \E i \in evicts, j \in inserts : i < j]_vars

\* a put observed by a listener as an Evict followed by an Insert
C5_Witness ==
    /\ lastOp.op = "put"
    /\ Len(events) = 2
    /\ events[1][1] = "Evict"
    /\ events[2][1] = "Insert"

\* C6: a put on a key that is already stored evicts nothing, leaves size()
\* unchanged and emits exactly one Update carrying the old and the new value,
\* and no Insert or Evict.
C6_UpdateKeepsEntries ==
    [][(lastOp'.op = "put" /\ lastOp'.key \in DOMAIN data_) =>
          LET k == lastOp'.key
          IN  /\ lastOp'.gone = {}
              /\ DOMAIN data_' = DOMAIN data_
              /\ \A j \in (DOMAIN data_) \ {k} : data_'[j] = data_[j]
              /\ events' = IF listeners_ = <<>> THEN <<>>
                           ELSE << <<"Update", k, data_[k], lastPut'[k]>> >>]_vars

\* an update in a full cache, seen by a listener with different old and new values
C6_Witness ==
    /\ lastOp.op = "put"
    /\ Size = capacity_
    /\ Len(events) = 1
    /\ events[1][1] = "Update"
    /\ events[1][3] # events[1][4]

\* C7: every get(k) delivers to each registered listener exactly one of:
\* Hit(k) when k is stored and unexpired; Expire(k) followed by Miss(k) when k
\* is stored but its deadline has passed (k is then removed); Miss(k) alone
\* when k is absent.
C7_GetEvents ==
    [][(lastOp'.op = "get" /\ listeners_ # <<>>) =>
          LET k == lastOp'.key
          IN  IF ~Stored(k) THEN events' = << <<"Miss", k>> >>
              ELSE IF PastDeadline(k)
              THEN events' = << <<"Expire", k>>, <<"Miss", k>> >> /\ k \notin DOMAIN data_'
              ELSE events' = << <<"Hit", k>> >>]_vars

\* C8: removeExpired() removes exactly the stored keys whose deadline has
\* passed, emits an Expire and no Remove for each of them, and returns their
\* number; when no stored entry is expired it returns 0 and emits no event.
C8_RemoveExpired ==
    [][lastOp'.op = "removeExpired" =>
          LET expired == {k \in DOMAIN data_ : PastDeadline(k)}
          IN  /\ DOMAIN data_' = (DOMAIN data_) \ expired
              /\ lastOp'.ret = Cardinality(expired)
              /\ listeners_ # <<>> =>
                    /\ Len(events') = Cardinality(expired)
                    /\ \A k \in expired : \E i \in 1..Len(events') : events'[i] = <<"Expire", k>>]_vars

\* C9: Cache::timeToLive(k) returns empty when k is absent or has no deadline,
\* a zero duration when k is stored and its deadline has already passed, and
\* otherwise the time remaining until the deadline.
C9_TimeToLive ==
    [][lastOp'.op = "timeToLive" =>
          LET k == lastOp'.key
          IN  lastOp'.ret = IF ~Stored(k) \/ DeadlineOf(k) = {} THEN {}
                            ELSE IF PastDeadline(k) THEN {0}
                            ELSE {expirationPolicy_.expirationTimes_[k] - now}]_vars

\* C10: contains(k) is true exactly when k is stored and not expired, and the
\* call changes nothing: it does not remove the entry, does not change recency
\* or frequency, and emits no event.
C10_ContainsIsPure ==
    [][lastOp'.op = "contains" =>
          /\ lastOp'.ret = (Stored(lastOp'.key) /\ ~PastDeadline(lastOp'.key))
          /\ events' = <<>>
          /\ UNCHANGED <<capacity_, data_, evictionPolicy_, expirationPolicy_, listeners_>>]_vars

\* contains answered false for a key that is stored (and stays stored) past its deadline
C10_Witness ==
    /\ lastOp.op = "contains"
    /\ lastOp.ret = FALSE
    /\ Stored(lastOp.key)
    /\ PastDeadline(lastOp.key)

\* the clock values at which a deadline recorded now can be looked at
Horizon == now..(MaxTime + MaxDefaultTtl + 1)

\* the ttl a policy applies to an insert, as an optional
AppliedTtl(e, customTtl) ==
    IF e.kind = "GlobalTTL" THEN {e.globalTtl_}
    ELSE IF e.kind = "PerKeyTTL" THEN (IF customTtl # {} THEN customTtl ELSE e.defaultTtl_)
    ELSE {}

\* C11: after a key is inserted with a finite TTL d at time t, isExpired(k)
\* is false at every time up to and including t + d and true at every later
\* time, until the key is inserted again or removed (a zero or negative
\* duration is not a TTL: the policy rejects or ignores it). Calls and clock
\* ticks that neither insert nor remove k leave isExpired(k) at every time
\* as it was.
C11_ExpiredAfterDeadline ==
    [][/\ (lastOp'.op = "onInsert" /\ \E d \in AppliedTtl(expirationPolicy_, lastOp'.ret) : d > 0) =>
            \A d \in AppliedTtl(expirationPolicy_, lastOp'.ret) : \A clock \in Horizon :
                Exp_isExpired(expirationPolicy_', lastOp'.key, clock) = (clock > now + d)
       /\ \A k \in Keys :
            (lastOp'.op \in {"isExpired", "tick"}
             \/ (lastOp'.op \in {"onInsert", "onRemove"} /\ lastOp'.key # k)) =>
                \A clock \in Horizon :
                    Exp_isExpired(expirationPolicy_', k, clock)
                        = Exp_isExpired(expirationPolicy_, k, clock)]_vars

\* isExpired answered true for a key one tick after it had answered false at
\* the deadline itself
C11_Witness ==
    /\ lastOp.op = "isExpired"
    /\ lastOp.ret = TRUE
    /\ DeadlineOf(lastOp.key) = {now - 1}

C12_WitnessCustom ==
    /\ lastOp.op = "onInsert"
    /\ expirationPolicy_.kind = "PerKeyTTL"
    /\ lastOp.ret = {1}
    /\ expirationPolicy_.defaultTtl_ = {2}
    /\ DeadlineOf(lastOp.key) = {now + 1}

\* C13: remove(k) returns true exactly when k was stored; in that case k is
\* absent afterwards (the other entries stay) and exactly one Remove(k) is
\* emitted; otherwise it returns false, changes nothing and emits nothing.
C13_Remove ==
    [][lastOp'.op = "remove" =>
          LET k == lastOp'.key
          IN  IF Stored(k)
              THEN /\ lastOp'.ret = TRUE
                   /\ data_' = MapErase(data_, k)
                   /\ events' = IF listeners_ = <<>> THEN <<>> ELSE << <<"Remove", k>> >>
              ELSE /\ lastOp'.ret = FALSE
                   /\ events' = <<>>
                   /\ UNCHANGED <<capacity_, data_, evictionPolicy_, expirationPolicy_,
                                  listeners_>>]_vars

\* a listener saw the removal of a stored key, another entry staying, after
\* the clock had advanced
C13_Witness ==
    /\ lastOp.op = "remove"
    /\ lastOp.ret = TRUE
    /\ events = << <<"Remove", lastOp.key>> >>
    /\ Size >= 1
    /\ now > 0

\* remove of an absent key, with a listener registered and other keys stored
C13_WitnessAbsent ==
    /\ lastOp.op = "remove"
    /\ lastOp.ret = FALSE
    /\ listeners_ # <<>>
    /\ Size >= 1

\* the keys an eviction policy object tracks, read off its members
EvictionTracked(p) ==
    IF p.kind = "LRU" THEN {p.order_[i] : i \in 1..Len(p.order_)} \cup p.keyToIterator_
    ELSE (DOMAIN p.frequencyMap_) \cup p.keyToIterator_
         \cup UNION {{p.frequencyLists_[f][i] : i \in 1..Len(p.frequencyLists_[f])} :
                        f \in DOMAIN p.frequencyLists_}

\* C14: clear() empties storage and both policies and emits exactly one Clear
\* whose count equals size() just before the call; a second consecutive
\* clear() emits Clear with count 0.
C14_Clear ==
    [][lastOp'.op = "clear" =>
          /\ data_' = EmptyMap
          /\ EvictionTracked(evictionPolicy_') = {}
          /\ Ev_empty(evictionPolicy_')
          /\ Tracked(expirationPolicy_') = {}
          /\ events' = IF listeners_ = <<>> THEN <<>> ELSE << <<"Clear", Size>> >>
          /\ (lastOp.op = "clear" /\ listeners_ # <<>>) => events' = << <<"Clear", 0>> >>]_vars

\* a listener saw a full cache of two entries with deadlines being cleared
C14_Witness ==
    /\ lastOp.op = "clear"
    /\ events = << <<"Clear", 2>> >>
    /\ lastOp.gone # {}
    /\ Size = 0

\* C15 as stated: constructing a Cache with capacity 0, with a null eviction
\* policy, or with a null expiration policy fails with an invalid-argument
\* error and yields no cache.
C15_ConstructorRejectsNull ==
    lastOp.op = "construct" =>
        ((lastOp.key = 0 \/ lastOp.ret[1] \/ lastOp.ret[2]) => (lastOp.threw /\ ~Exists))

\* C15, amended: constructing a Cache fails with an invalid-argument error
\* and yields no cache exactly when the capacity is 0 or the eviction policy
\* is null; a null expiration policy is replaced by NoExpiration and the
\* cache is constructed.
C15_ConstructorRejects ==
    lastOp.op = "construct" =>
        /\ lastOp.threw = (lastOp.key = 0 \/ lastOp.ret[1])
        /\ lastOp.threw => ~Exists
        /\ ~lastOp.threw =>
              /\ Exists
              /\ capacity_ = lastOp.key
              /\ data_ = EmptyMap
              /\ lastOp.ret[2] => expirationPolicy_ = NewNoExpiration

\* a cache constructed from a null expiration policy
C15_Witness ==
    /\ lastOp.op = "construct"
    /\ lastOp.ret[2]
    /\ ~lastOp.threw
    /\ expirationPolicy_.kind = "NoExpiration"

\* a constructor call refused for its capacity alone
C15_WitnessZero ==
    /\ lastOp.op = "construct"
    /\ lastOp.key = 0
    /\ lastOp.ret = <<FALSE, FALSE>>
    /\ lastOp.threw

\* the elements of a sequence
Range(q) == {q[i] : i \in 1..Len(q)}

\* the sequence q holds every element of S exactly once
ListsOnce(q, S) == Len(q) = Cardinality(S) /\ Range(q) = S

\* C16: after setEvictionPolicy(p) or setExpirationPolicy(p) with an empty
\* policy p, the stored entries are unchanged and p tracks exactly the stored
\* keys, each inserted once (with no custom TTL for expiration: a stored key
\* gets the deadline an insert without ttl gives it now, no other key has a
\* record), so that later evictions and expirations act only on stored keys:
\* a put of a new key into a full cache drops a stored entry, and
\* removeExpired removes as many entries as the policy holds passed deadlines.
C16_PolicySwap ==
    [][/\ (lastOp'.op = "setEvictionPolicy" /\ ~lastOp'.threw) =>
            /\ data_' = data_
            /\ expirationPolicy_' = expirationPolicy_
            /\ EvictionTracked(evictionPolicy_') = DOMAIN data_
            /\ evictionPolicy_'.keyToIterator_ = DOMAIN data_
            /\ evictionPolicy_'.kind = "LRU" => ListsOnce(evictionPolicy_'.order_, DOMAIN data_)
            /\ evictionPolicy_'.kind = "LFU" =>
                  /\ evictionPolicy_'.frequencyMap_ = [k \in DOMAIN data_ |-> 1]
                  /\ \A f \in DOMAIN evictionPolicy_'.frequencyLists_ :
                        f = 1 /\ ListsOnce(evictionPolicy_'.frequencyLists_[f], DOMAIN data_)
       /\ lastOp'.op = "setExpirationPolicy" =>
            /\ data_' = data_
            /\ evictionPolicy_' = evictionPolicy_
            /\ Tracked(expirationPolicy_') \subseteq DOMAIN data_
            /\ \A k \in DOMAIN data_ :
                  (IF k \in Tracked(expirationPolicy_')
                   THEN {expirationPolicy_'.expirationTimes_[k]} ELSE {})
                      = {now + d : d \in AppliedTtl(expirationPolicy_', {})}
       /\ (lastOp'.op = "put" /\ ~Stored(lastOp'.key) /\ Size = capacity_) =>
            (Cardinality(lastOp'.gone) = 1 /\ lastOp'.gone \subseteq DOMAIN data_)
       /\ lastOp'.op = "removeExpired" =>
            lastOp'.ret = Cardinality(Exp_collectExpired(expirationPolicy_, now))]_vars

\* an LFU policy was installed into a cache holding two entries, after a
\* clock tick
C16_Witness ==
    /\ lastOp.op = "setEvictionPolicy"
    /\ ~lastOp.threw
    /\ evictionPolicy_.kind = "LFU"
    /\ Size = 2
    /\ now > 0

\* a GlobalTTL policy was installed into a cache holding two entries
C16_WitnessExpiration ==
    /\ lastOp.op = "setExpirationPolicy"
    /\ expirationPolicy_.kind = "GlobalTTL"
    /\ Size = 2
    /\ now > 0
    /\ \A k \in DOMAIN data_ : DeadlineOf(k) = {now + expirationPolicy_.globalTtl_}

\* thread t is between locking and unlocking mutex_
Inside(t) == threads[t].pc # "idle"

\* the members of the inner cache and what its listeners are being told
innerState == <<data_, evictionPolicy_, expirationPolicy_, listeners_, events>>

C17_WitnessReaders ==
    /\ Cardinality(mutex_.readers) = 2
    /\ \E t, u \in Threads : threads[t].op = "size" /\ threads[u].op = "contains"

\* C18: a closure run by ThreadSafeCache::withExclusiveLock executes
\* atomically with respect to every other operation on that cache: no other
\* thread's operation takes effect between the closure's first and last
\* access to the inner cache, so what its check saw still holds at its put.
C18_ClosureIsAtomic ==
    [][\A t \in Threads :
          /\ threads[t].pc = "checked" =>
                /\ threads[t].seen = (threads[t].key \in DOMAIN data_)
                /\ \A u \in Threads \ {t} : ~Inside(u) /\ threads'[u].pc # "called"
                /\ innerState' # innerState => threads'[t].pc = "called"
          /\ (threads[t].pc = "checked" /\ threads'[t].pc = "called" /\ ~threads[t].seen) =>
                events' = << <<"Insert", threads[t].key, 1>> >>
                \/ (Len(events') = 2 /\ events'[2] = <<"Insert", threads[t].key, 1>>)]_vars

\* a closure that found its key absent has stored it into a full cache
C18_Witness ==
    \E t \in Threads :
        /\ threads[t].pc = "called"
        /\ threads[t].op = "withExclusiveLock"
        /\ ~threads[t].seen
        /\ threads[t].key \in DOMAIN data_
        /\ Size = 2

\* C19: for ShardedCache, size() <= capacity() holds after any sequence of
\* operations, where capacity() is the totalCapacity passed at construction,
\* for every totalCapacity >= 1 and every ShardCount.
C19_ShardedSizeWithinCapacity ==
    totalCapacity_ >= 1 => Sharded_size(shards_) <= totalCapacity_

\* the least number of entries per shard with which ShardCount shards hold
\* total entries
PerShard(total) ==
    CHOOSE n \in 1..total :
        /\ n * ShardCount >= total
        /\ \A m \in 1..(n - 1) : m * ShardCount < total

\* C20 as stated: on a ShardedCache, as on the core cache, no entry is
\* evicted during any sequence of operations in which the number of stored
\* keys never exceeds capacity(): a put evicts only when the cache already
\* holds capacity() keys.
C20_NoEvictionBelowCapacity ==
    [][(lastOp'.op = "put" /\ (lastOp'.gone # {} \/ EventsOf(events', "Evict") # {})) =>
          Sharded_size(shards_) >= totalCapacity_]_vars

\* C20, amended: on a ShardedCache no entry is evicted during any sequence of
\* operations in which the number of keys stored in each shard never exceeds
\* the capacity of a shard, ceil(totalCapacity / ShardCount): a put evicts
\* exactly when its key is new and the shard of the key is full, whatever the
\* other shards hold; it then evicts one entry of that shard.
C20_EvictionOnlyFromFullShard ==
    [][lastOp'.op = "put" =>
          LET i == getShardIndex(lastOp'.key)
              full == /\ lastOp'.key \notin DOMAIN shards_[i].data_
                      /\ Cardinality(DOMAIN shards_[i].data_) = PerShard(totalCapacity_)
          IN  /\ full <=> lastOp'.gone # {}
              /\ full <=> EventsOf(events', "Evict") # {}
              /\ lastOp'.gone \subseteq DOMAIN shards_[i].data_
              /\ Cardinality(lastOp'.gone) <= 1
              /\ \A j \in ShardIndices \ {i} : shards_'[j] = shards_[j]]_vars

\* a put evicted an entry while the cache held fewer keys than capacity()
C20_Witness ==
    /\ lastOp.op = "put"
    /\ lastOp.gone # {}
    /\ Sharded_size(shards_) < totalCapacity_

\* ---------------------------------------------------------------- C21
\* the threads that hold the lock m
Holders(m) == (IF m.writer = 0 THEN {} ELSE {m.writer}) \cup m.readers

AllReturned == \A t \in Threads : threads[t].pc = "idle"

\* the keys put so far that are routed to shard i
PutInto(i) == {k \in DOMAIN lastPut : hasher(k) % ShardCount = i}

\* C21: when threads have concurrently put distinct keys into a ShardedCache,
\* no shard having received more keys than the capacity of a shard, and all
\* of them have returned, size() is the number of keys put and get(k) returns
\* the value put for every key k put: no insert is lost.
C21_NoInsertLost ==
    (/\ AllReturned
     /\ \A i \in ShardIndices : Cardinality(PutInto(i)) <= PerShard(totalCapacity_))
        => /\ Sharded_size(shards_) = Cardinality(DOMAIN lastPut)
           /\ \A k \in DOMAIN lastPut : Sharded_get(shards_, k, now).ret = {lastPut[k]}

\* all keys have been put, two of them into the same shard, without any
\* shard being overfilled, and the threads have returned
C21_Witness ==
    /\ AllReturned
    /\ DOMAIN lastPut = Keys
    /\ \E i \in ShardIndices : Cardinality(PutInto(i)) >= 2
    /\ \A i \in ShardIndices : Cardinality(PutInto(i)) <= PerShard(totalCapacity_)
    /\ Sharded_size(shards_) = NumKeys

\* ---------------------------------------------------------------- C22
HeldBy(t) == {i \in ShardIndices : t \in Holders(shardMutex[i])}

Keyed(t) == threads[t].op \in {"get", "put", "remove", "contains"}

\* thread t is at the construction of a lock object and cannot lock
Blocked(t) ==
    /\ threads[t].pc = "want"
    /\ ~CanLock(shardMutex[threads[t].shard], ShardLockOf(threads[t].op))

\* C22: get, put, remove and contains on key k hold no lock but that of shard
\* hash(k) mod ShardCount; no call, size and clear included, holds two shard
\* locks at once; a thread never waits for a thread whose key is routed to
\* another shard; and the calls cannot deadlock: a thread that holds a lock is
\* never blocked, so whenever a thread waits, the holder it waits for can go on.
C22_OneShardLock ==
    /\ \A t \in Threads :
          /\ Cardinality(HeldBy(t)) <= 1
          /\ threads[t].pc # "locked" => HeldBy(t) = {}
          /\ Keyed(t) => HeldBy(t) \subseteq {hasher(threads[t].key) % ShardCount}
          /\ (Keyed(t) /\ threads[t].pc = "locked")
                 => HeldBy(t) = {hasher(threads[t].key) % ShardCount}
    /\ \A t, u \in Threads :
          (/\ Keyed(t) /\ Keyed(u) /\ Blocked(t)
           /\ hasher(threads[t].key) % ShardCount # hasher(threads[u].key) % ShardCount)
              => threads[t].shard \notin HeldBy(u)
    /\ \A t \in Threads :
          Blocked(t) => \E u \in Threads \ {t} :
                            threads[t].shard \in HeldBy(u) /\ threads[u].pc = "locked"

\* a thread is in put on a key of one shard while another thread holds the
\* lock of the other shard for a key routed there
C22_Witness ==
    \E t, u \in Threads :
        /\ threads[t].op = "put" /\ threads[t].pc = "locked"
        /\ threads[u].op = "get" /\ threads[u].pc = "locked"
        /\ HeldBy(t) # HeldBy(u)

\* a thread waits for the lock of a shard that clear is holding
C22_WitnessBlocked ==
    \E t, u \in Threads :
        /\ Blocked(t) /\ Keyed(t)
        /\ threads[u].op = "clear" /\ threads[u].pc = "locked"
        /\ threads[u].shard = ShardCount - 1

\* ---------------------------------------------------------------- C23
\* how often x occurs in the sequence q
Count(q, x) == Cardinality({n \in 1..Len(q) : q[n] = x})

\* the events passed to the composite while entry e was registered
PassedTo(e) == {k \in 1..Len(passedTo) : e \in passedTo[k]}

\* caller c returns from a call of method op in this step
Returns(c, op) ==
    callers[c].op = op /\ callers[c].pc = "stopping" /\ callers'[c].pc = "idle"

InFlight(en) == IF en.command = 0 THEN <<>> ELSE <<en.command>>

\* the elements of a set of numbers in increasing order
RECURSIVE Ascending(_)
Ascending(S) == IF S = {} THEN <<>> ELSE <<SetMin(S)>> \o Ascending(S \ {SetMin(S)})

\* C24: for every listener registered with the composite, the events its
\* callbacks were called with, followed by the one being delivered and those
\* still queued, are exactly the events passed to the composite while the
\* listener was registered, in the order they were passed: none reordered,
\* duplicated or skipped.
C24_FifoPerListener ==
    \A e \in DOMAIN listenerEntry :
        delivered[e] \o InFlight(listenerEntry[e]) \o listenerEntry[e].queue.queue_
            = Ascending(PassedTo(e))

\* a listener has received two events while a listener registered later has
\* received the second only
C24_Witness ==
    \E e, f \in DOMAIN listenerEntry : delivered[e] = <<1, 2>> /\ delivered[f] = <<2>>

\* a listener has an event in delivery and another queued behind it
C24_WitnessQueued ==
    \E e \in DOMAIN listenerEntry :
        listenerEntry[e].command = 1 /\ listenerEntry[e].queue.queue_ = <<2>>

\* ---------------------------------------------------------------- C25
\* the thread of entry e is inside a callback of its listener
InCallback(e) == listenerEntry[e].pc \in {"exec", "drainExec"}

\* C25: while a callback of a listener is running (for however long), an
\* event can be passed to the composite without waiting, and the thread of
\* every other listener that has not ended can take its next step, the
\* delivery of a queued event included.
C25_SlowListenerBlocksNobody ==
    \A e \in DOMAIN listenerEntry :
        InCallback(e)
            => /\ \A f \in EntrySet(entries_) : Queue_canPush(listenerEntry[f].queue)
               /\ Len(passedTo) < MaxEvents => ENABLED Composite_broadcast
               /\ \A f \in (DOMAIN listenerEntry) \ {e} :
                      listenerEntry[f].pc # "done" => ENABLED Worker(f)

\* a callback is still running on the first event while the second event
\* has been passed and delivered to another listener
C25_Witness ==
    \E e, f \in DOMAIN listenerEntry :
        /\ InCallback(e) /\ listenerEntry[e].command = 1
        /\ listenerEntry[e].queue.queue_ = <<2>>
        /\ delivered[f] = <<1, 2>>

\* ---------------------------------------------------------------- C26
\* event k is queued for entry e or in delivery to it
Pending(e, k) ==
    /\ e \in DOMAIN listenerEntry
    /\ \/ listenerEntry[e].command = k
       \/ k \in Range(listenerEntry[e].queue.queue_)

\* an event is queued for entry e or in delivery to it
HasPending(e) == \E k \in 1..MaxEvents : Pending(e, k)

DeliveredOnce(e, k) == e \in DOMAIN delivered /\ Count(delivered[e], k) = 1

\* C26: the thread of a listener ends only after it was told to stop and with
\* nothing left in its queue, whether or not callbacks threw; a callback that
\* throws leaves the thread in its loop (or in the drain); an event queued for
\* a listener leaves its queue only by being delivered; and whatever is
\* queued for a listener is delivered in the end, the events queued behind
\* one whose callback throws included.
C26_WorkerSurvivesThrow ==
    /\ [](\A e \in DOMAIN listenerEntry :
             listenerEntry[e].pc = "done"
                 => ~listenerEntry[e].running /\ listenerEntry[e].queue.queue_ = <<>>)
    /\ [][\A e \in DOMAIN listenerEntry :
             (InCallback(e) /\ delivered'[e] # delivered[e])
                 => listenerEntry'[e].pc \in {"loop", "drain"}]_vars
    /\ [][\A e \in DOMAIN listenerEntry, k \in 1..MaxEvents :
             (Pending(e, k) /\ ~Pending(e, k)') => DeliveredOnce(e, k)']_vars
    /\ \A e \in 1..MaxEntries : HasPending(e) ~> ~HasPending(e)

\* a listener whose callbacks throw has been called with both events, the
\* second delivered by the loop while the listener is registered
C26_Witness ==
    \E e \in EntrySet(entries_) :
        /\ Throws(listenerEntry[e].listener)
        /\ delivered[e] = <<1, 2>>
        /\ listenerEntry[e].running /\ listenerEntry[e].pc = "loop"

Running == {e \in DOMAIN listenerEntry : listenerEntry[e].pc # "done"}

C28_WitnessAgain ==
    \E c \in Callers :
        /\ callers[c].op = "stop" /\ callers[c].pc = "stopping"
        /\ callers[c].entriesToStop = <<>>
        /\ Len(listenerEntry) = MaxEntries /\ Running = {}

\* ---------------------------------------------------------------- C29
\* C29: no get, put, remove or clear is left by an exception because a
\* listener's callback threw, and no registered listener misses a callback
\* because a listener registered before it threw.
C29_ListenerFailureContained ==
    lastOp.op \in {"get", "put", "remove", "clear"} => ~lastOp.threw /\ skipped = <<>>

\* ---------------------------------------------------------------- C30
\* C30: a put, get or remove that is left by an exception leaves the stored
\* entries and the metadata of both policies exactly as they were before the
\* call.
C30_StrongGuarantee ==
    [][(lastOp'.op \in {"get", "put", "remove"} /\ lastOp'.threw)
          => /\ data_' = data_
             /\ evictionPolicy_' = evictionPolicy_
             /\ expirationPolicy_' = expirationPolicy_]_vars

\* ---------------------------------------------------------------- C31
\* the nodes holding key in the lists of an eviction policy
RECURSIVE SumOver(_, _)
SumOver(f, S) ==
    IF S = {} THEN 0
    ELSE LET x == CHOOSE y \in S : TRUE IN f[x] + SumOver(f, S \ {x})

Occurrences(p, key) ==
    IF p.kind = "LRU" THEN Count(p.order_, key)
    ELSE SumOver([f \in DOMAIN p.frequencyLists_ |-> Count(p.frequencyLists_[f], key)],
                 DOMAIN p.frequencyLists_)

\* the keys an eviction policy holds a record for, by its index and by its lists
Indexed(p) == IF p.kind = "LRU" THEN p.keyToIterator_ ELSE DOMAIN p.frequencyMap_

Listed(p) == {key \in Keys : Occurrences(p, key) > 0}

\* C31: after any sequence of cache operations the eviction policy tracks
\* exactly the keys held in storage, each exactly once (in its index and as
\* one node of its lists); whatever removed a key (remove, eviction, expiry
\* on get, removeExpired, clear) has dropped the key's record.
C31_PolicyTracksStorage ==
    /\ Indexed(evictionPolicy_) = DOMAIN data_
    /\ evictionPolicy_.keyToIterator_ = DOMAIN data_
    /\ \A key \in Keys :
          Occurrences(evictionPolicy_, key) = IF key \in DOMAIN data_ THEN 1 ELSE 0
    /\ \A key \in lastOp.gone : key \notin Indexed(evictionPolicy_) \cup Listed(evictionPolicy_)

\* an LFU cache has lost an expired key through get while another key stays tracked
C31_Witness ==
    /\ evictionPolicy_.kind = "LFU"
    /\ lastOp.op = "get" /\ lastOp.gone = {lastOp.key}
    /\ DOMAIN data_ # {}

C31_WitnessEvict == lastOp.op = "put" /\ lastOp.gone # {} /\ Size = capacity_

C31_WitnessRemoveExpired == lastOp.op = "removeExpired" /\ lastOp.gone # {} /\ DOMAIN data_ # {}

C31_WitnessRemove == lastOp.op = "remove" /\ lastOp.gone # {} /\ DOMAIN data_ # {}

C31_WitnessClear == lastOp.op = "clear" /\ Cardinality(lastOp.gone) = 2

\* ---------------------------------------------------------------- C32
\* C32: after any sequence of cache operations every deadline record of the
\* expiration policy belongs to a key held in storage (a stored key has the
\* one record the key -> deadline map holds for it, or none), and the keys an
\* operation dropped have no record left.
C32_DeadlinesBelongToStorage ==
    /\ Tracked(expirationPolicy_) \subseteq DOMAIN data_
    /\ DOMAIN expirationPolicy_.expirationTimes_ \subseteq DOMAIN data_
    /\ \A key \in lastOp.gone : key \notin DOMAIN expirationPolicy_.expirationTimes_

\* removeExpired has dropped keys whose deadline had passed while another
\* stored key keeps its deadline
C32_Witness ==
    /\ lastOp.op = "removeExpired" /\ lastOp.gone # {}
    /\ Tracked(expirationPolicy_) # {}

\* an entry with a deadline was evicted
C32_WitnessEvict ==
    /\ lastOp.op = "put" /\ lastOp.gone # {}
    /\ expirationPolicy_.kind = "GlobalTTL"

\* ---------------------------------------------------------------- C33
\* the smallest frequency among the keys an LFU policy tracks
MinTrackedFrequency(p) == SetMin({p.frequencyMap_[key] : key \in DOMAIN p.frequencyMap_})

SelectedVictim == lastOp'.op = "selectVictim" /\ ~lastOp'.threw

\* C33: whenever selectVictim is called on a non-empty LFU policy, the
\* minimum frequency it uses (minFrequency_ once ensureValidMinFrequency has
\* run) is the smallest frequency among the tracked keys, and the key it
\* returns has that frequency.
C33_MinFrequencyAtSelect ==
    [][(SelectedVictim /\ evictionPolicy_.kind = "LFU")
          => /\ evictionPolicy_'.minFrequency_ = MinTrackedFrequency(evictionPolicy_)
             /\ \A key \in lastOp'.ret :
                   evictionPolicy_.frequencyMap_[key] = MinTrackedFrequency(evictionPolicy_)]_vars

\* selectVictim has run on an LFU policy whose smallest frequency is above 1
\* (the keys of frequency 1 were accessed or removed) next to a larger one
C33_Witness ==
    /\ evictionPolicy_.kind = "LFU"
    /\ lastOp.op = "selectVictim" /\ ~lastOp.threw
    /\ evictionPolicy_.minFrequency_ = 2
    /\ \E key \in DOMAIN evictionPolicy_.frequencyMap_ : evictionPolicy_.frequencyMap_[key] = 3

\* ---------------------------------------------------------------- C34
\* the minimum frequency of an LFU policy designates no list (it is stale)
StaleMinFrequency(p) == p.kind = "LFU" /\ p.minFrequency_ \notin DOMAIN p.frequencyLists_

\* C34 as stated: selectVictim changes no policy state, the tracked minimum
\* frequency included, and a repeated call returns the same key.
C34_SelectVictimIsPure ==
    [][SelectedVictim
          => /\ evictionPolicy_' = evictionPolicy_
             /\ {Ev_selectVictim(evictionPolicy_').victim} = lastOp'.ret]_vars

\* C34: selectVictim changes neither the tracked keys nor their order nor
\* their frequencies, in LRU and in LFU alike, and a repeated call returns the
\* same key; the minimum frequency of an LFU policy is the same before and
\* after the call unless it designated no list, in which case the call sets
\* it to the smallest frequency among the tracked keys.
C34_SelectVictimKeepsKeys ==
    [][SelectedVictim
          => /\ evictionPolicy_' =
                    IF StaleMinFrequency(evictionPolicy_)
                    THEN [evictionPolicy_ EXCEPT
                             !.minFrequency_ = MinTrackedFrequency(evictionPolicy_)]
                    ELSE evictionPolicy_
             /\ {Ev_selectVictim(evictionPolicy_').victim} = lastOp'.ret]_vars

\* selectVictim has returned a key of an LFU policy that tracks two keys of
\* different frequencies
C34_Witness ==
    /\ evictionPolicy_.kind = "LFU"
    /\ lastOp.op = "selectVictim" /\ ~lastOp.threw
    /\ Cardinality(DOMAIN evictionPolicy_.frequencyLists_) = 2

C34_WitnessLRU ==
    /\ evictionPolicy_.kind = "LRU"
    /\ lastOp.op = "selectVictim" /\ ~lastOp.threw
    /\ Len(evictionPolicy_.order_) = 3

\* ---------------------------------------------------------------- C40
\* C40: after any sequence of LFUPolicy onInsert (of untracked keys),
\* onAccess, onRemove and clear calls every tracked key is one node of the
\* list of its current frequency and of no other list, untracked keys are in
\* no list, no frequency list is empty, and the tracked minimum frequency is
\* not greater than the frequency of any tracked key.
C40_LFUListsConsistent ==
    evictionPolicy_.kind = "LFU" =>
        LET p == evictionPolicy_
        IN  /\ p.keyToIterator_ = DOMAIN p.frequencyMap_
            /\ \A key \in Keys, f \in DOMAIN p.frequencyLists_ :
                  Count(p.frequencyLists_[f], key) =
                      IF key \in DOMAIN p.frequencyMap_ /\ p.frequencyMap_[key] = f
                      THEN 1 ELSE 0
            /\ \A key \in DOMAIN p.frequencyMap_ :
                  p.frequencyMap_[key] \in DOMAIN p.frequencyLists_
            /\ \A f \in DOMAIN p.frequencyLists_ : p.frequencyLists_[f] # <<>>
            /\ \A key \in DOMAIN p.frequencyMap_ : p.minFrequency_ <= p.frequencyMap_[key]

\* a removal has left keys of two frequencies tracked and the minimum
\* frequency below both
C40_Witness ==
    /\ evictionPolicy_.kind = "LFU"
    /\ lastOp.op = "onRemove"
    /\ DOMAIN evictionPolicy_.frequencyLists_ = {2, 3}
    /\ evictionPolicy_.minFrequency_ = 1

\* two keys share a list after accesses
C40_WitnessShared ==
    /\ evictionPolicy_.kind = "LFU"
    /\ lastOp.op = "onAccess"
    /\ \E f \in DOMAIN evictionPolicy_.frequencyLists_ : Len(evictionPolicy_.frequencyLists_[f]) = 2

\* ---------------------------------------------------------------- C35
\* the step is a put / a get of key, seen by a registered listener
PutOf(key) == lastOp'.op = "put" /\ lastOp'.key = key /\ listeners_ # <<>>

GetOf(key) == lastOp'.op = "get" /\ lastOp'.key = key

\* C35 as stated: a put of a stored key whose deadline has passed behaves as
\* a fresh insert: the listeners receive Insert and no Update.
C35_ExpiredPutIsInsert ==
    [][\A key \in Keys :
          (PutOf(key) /\ Stored(key) /\ PastDeadline(key))
              => /\ EventsOf(events', "Update") = {}
                 /\ events'[Len(events')] = <<"Insert", key, data_'[key]>>]_vars

\* C35: once a stored key's deadline has passed, get never returns its old
\* value (it removes the entry and returns nothing), and a put of the key is a
\* fresh insert (Insert, no Update) once the entry has left storage; a put of
\* a key that is still stored, its deadline passed or not, is an update and
\* the listeners receive Update carrying the stored old value.
C35_ExpiredValueOnlyInUpdate ==
    [][\A key \in Keys :
          /\ (GetOf(key) /\ Stored(key) /\ PastDeadline(key))
                => lastOp'.ret = {} /\ key \notin DOMAIN data_'
          /\ (PutOf(key) /\ ~Stored(key))
                => /\ EventsOf(events', "Update") = {}
                   /\ events'[Len(events')] = <<"Insert", key, data_'[key]>>
          /\ (PutOf(key) /\ Stored(key))
                => events' = << <<"Update", key, data_[key], data_'[key]>> >>]_vars

\* a put has replaced a stored value, at a time when deadlines have passed
C35_Witness ==
    /\ lastOp.op = "put" /\ listeners_ # <<>>
    /\ now = MaxTime
    /\ EventsOf(events, "Update") # {}
    /\ events[1][3] # events[1][4]

\* a key that is not stored is put at a time when deadlines have passed
C35_WitnessFresh ==
    /\ lastOp.op = "put" /\ listeners_ # <<>>
    /\ now = MaxTime
    /\ EventsOf(events, "Insert") # {}

\* ---------------------------------------------------------------- C36
\* the step is a put of a key that was not stored, into a full cache
PutIntoFull ==
    /\ lastOp'.op = "put" /\ ~lastOp'.threw
    /\ lastOp'.key \notin DOMAIN data_
    /\ Size = capacity_

\* the key at the tail of the policy's order: the least recently used key,
\* or the least recently used among the keys of the smallest frequency
PolicyTail(p) ==
    IF p.kind = "LRU" THEN Back(p.order_)
    ELSE Back(p.frequencyLists_[MinTrackedFrequency(p)])

\* C36 as stated: a put of a new key into a full cache evicts no unexpired
\* entry while some stored entry is already expired.
C36_ExpiredEvictedFirst ==
    [][(PutIntoFull /\ \E key \in DOMAIN data_ : PastDeadline(key))
          => \A key \in lastOp'.gone : PastDeadline(key)]_vars

\* C36: a put of a new key into a full cache evicts exactly the entry the
\* eviction policy selects (the tail of its order), whether or not that entry
\* or any other stored entry has expired; entries whose deadline has passed
\* stay stored until get, removeExpired, remove, clear or the policy's choice
\* drops them.
C36_PolicyVictimEvicted ==
    [][PutIntoFull
          => /\ lastOp'.gone = {PolicyTail(evictionPolicy_)}
             /\ DOMAIN data_' = ((DOMAIN data_) \ lastOp'.gone) \cup {lastOp'.key}]_vars

\* a put has evicted an entry while an entry whose deadline has passed stays stored
C36_Witness ==
    /\ lastOp.op = "put" /\ lastOp.gone # {}
    /\ \E key \in (DOMAIN data_) \ {lastOp.key} : PastDeadline(key)

\* ---------------------------------------------------------------- C37
\* the keys for which contains() returns true now
Contained == {key \in Keys : Cache_contains(Self, key, now)}

\* the stored keys whose deadline has passed
ExpiredStored == {key \in DOMAIN data_ : PastDeadline(key)}

\* C37 as stated: size() is the number of keys for which contains() returns
\* true; an entry whose deadline has passed is not counted.
C37_SizeCountsLive ==
    lastOp.op = "size" => lastOp.ret = Cardinality(Contained)

\* C37: size() is the number of stored entries: the keys for which contains()
\* returns true plus the stored entries whose deadline has passed and which
\* no get or removeExpired has removed yet; contains() is true of exactly the
\* stored keys whose deadline has not passed.
C37_SizeCountsStored ==
    /\ lastOp.op = "size" =>
          lastOp.ret = Cardinality(Contained) + Cardinality(ExpiredStored)
    /\ lastOp.op = "contains" =>
          lastOp.ret = (Stored(lastOp.key) /\ ~PastDeadline(lastOp.key))
    /\ Contained = (DOMAIN data_) \ ExpiredStored

\* size() has counted two entries, one of them past its deadline
C37_Witness ==
    /\ lastOp.op = "size" /\ lastOp.ret = 2
    /\ Cardinality(ExpiredStored) = 1

\* ---------------------------------------------------------------- C38
\* the duration that applies to the last put: its ttl argument if one was
\* given, else the default of the policy
PutAppliedTtl == IF lastOp.ret # {} THEN lastOp.ret ELSE expirationPolicy_.defaultTtl_

AfterPutWithDefault ==
    /\ lastOp.op = "put"
    /\ expirationPolicy_.kind = "PerKeyTTL" /\ expirationPolicy_.defaultTtl_ # {}

\* C38 as stated: with a default TTL configured every key stored by put has
\* a finite deadline, whichever ttl argument was passed.
C38_AlwaysDeadline ==
    (AfterPutWithDefault /\ \A d \in expirationPolicy_.defaultTtl_ : d > 0)
        => lastOp.key \in DOMAIN expirationPolicy_.expirationTimes_

\* C38: with a default TTL configured, a key stored by put has the finite
\* deadline now + d when the duration d that applies (the ttl argument if one
\* was passed, else the default) is positive; when d is zero or negative the
\* key is stored without a deadline.
C38_DeadlineIffPositive ==
    AfterPutWithDefault =>
        /\ lastOp.key \in DOMAIN data_
        /\ \A d \in PutAppliedTtl :
              IF d > 0
              THEN /\ lastOp.key \in DOMAIN expirationPolicy_.expirationTimes_
                   /\ expirationPolicy_.expirationTimes_[lastOp.key] = now + d
              ELSE lastOp.key \notin DOMAIN expirationPolicy_.expirationTimes_

\* a put with a negative ttl has stored a key without a deadline, under a
\* positive default, while another key has a deadline
C38_Witness ==
    /\ AfterPutWithDefault /\ lastOp.ret = {-1}
    /\ \A d \in expirationPolicy_.defaultTtl_ : d > 0
    /\ lastOp.key \notin DOMAIN expirationPolicy_.expirationTimes_
    /\ DOMAIN expirationPolicy_.expirationTimes_ # {}

\* a put without ttl has given the key the default's deadline
C38_WitnessDefault ==
    /\ AfterPutWithDefault /\ lastOp.ret = {}
    /\ lastOp.key \in DOMAIN expirationPolicy_.expirationTimes_
    /\ now = 1

\* ---------------------------------------------------------------- C39
\* the events an entry's listener has received or is about to receive, in
\* the order of its callbacks
Received(e) ==
    delivered[e] \o InFlight(listenerEntry[e]) \o listenerEntry[e].queue.queue_

PositionIn(q, x) == CHOOSE n \in 1..Len(q) : q[n] = x

Has(q, x) == \E n \in 1..Len(q) : q[n] = x

\* C39: when several threads pass events to one composite concurrently, any
\* two of its listeners receive the events they have in common in the same
\* relative order (and no listener receives an event twice).
C39_SameRelativeOrder ==
    \A e, f \in DOMAIN listenerEntry :
        /\ \A a \in 1..MaxEvents : Count(Received(e), a) <= 1
        /\ \A a, b \in 1..MaxEvents :
              (Has(Received(e), a) /\ Has(Received(e), b)
                  /\ Has(Received(f), a) /\ Has(Received(f), b))
                => ((PositionIn(Received(e), a) < PositionIn(Received(e), b))
                      <=> (PositionIn(Received(f), a) < PositionIn(Received(f), b)))

\* two listeners have both been called with the event of the second call
\* before the event of the first call: the second caller got mutex_ first
C39_Witness ==
    /\ Len(delivered) = 2
    /\ delivered[1] = <<2, 1>>
    /\ delivered[2] = <<2, 1>>

====
